---- MODULE Spec2Model ----
(***************************************************************************)
(* dnscat2 Go client: the Session state machine (pkg/session/session.go),  *)
(* the parts of the Crypto Engine (pkg/crypto/encryptor.go) and of the     *)
(* Packet Codec (pkg/protocol/packet.go) that the session drives, and the  *)
(* Application Driver contract (pkg/driver).                               *)
(*                                                                         *)
(* Bytes are modelled by identity: the k-th byte an application produces   *)
(* is a distinct number, so "the same byte", "a prefix" and "in order" are *)
(* checkable.  Hashes and key agreement are modelled symbolically: a hash  *)
(* is the record of its inputs (collision free), ECDH(a, B) is the set     *)
(* {a, B} (symmetric in the two key pairs).  The random PacketID of a      *)
(* frame is never read by the session and is left out of the frames.       *)
(***************************************************************************)
EXTENDS Integers, Sequences, FiniteSets, TLC

\* ------------------------------------------------------------------ bounds
MaxStream   == 2   \* bytes each application produces over a run
MaxReceived == 1   \* bytes handed to the driver from enumerated frames
MaxMissed   == 2   \* GetOutgoing is not called past this many misses
MaxNonce    == 1   \* frames one fresh engine encrypts in a run
MaxClientStream == 1   \* bytes the client writes in the two-ended runs

\* ------------------------------------------------------- program constants
StateBeforeInit  == 0
StateBeforeAuth  == 1
StateNew         == 2
StateEstablished == 3

SeqMod           == 65536      \* uint16 arithmetic of MySeq / TheirSeq / nonce
MaxInitialSeq    == 65534      \* rand.Intn(0xFFFF) is at most 0xFFFE
RenegotiateAfter == 65520      \* 0xFFF0
EncryptOverhead  == 8          \* maxLength -= 8
MSGSize          == 9          \* protocol.GetMSGSize: 5 header + seq + ack
PINGSize         == 6          \* protocol.GetPINGSize: 5 header + NUL
PingLength       == 16
PacketDelay      == 1          \* 1000 * time.Millisecond, in seconds

OptName    == 1
OptCommand == 32

EncSubtypeInit == 0
EncSubtypeAuth == 1

NoKey  == "none"   \* an engine's theirPublicKey before SetTheirPublicKey
BadKey == "bad"    \* 64 bytes that are not a point of P-256

Min(a, b) == IF a < b THEN a ELSE b

\* --------------------------------------------------------------- Encryptor
\* crypto.NewEncryptor: a fresh key pair, nothing derived yet, nonce 0.
NewEncryptor(presharedSecret, keyPair) ==
    [PresharedSecret |-> presharedSecret,
     myKey           |-> keyPair,
     theirPublicKey  |-> NoKey,
     nonce           |-> 0]

\* sharedSecret: 32 zero bytes until SetTheirPublicKey derived it.
SharedSecret(e) ==
    IF e.theirPublicKey = NoKey THEN {} ELSE {e.myKey, e.theirPublicKey}

\* Encryptor.SetTheirPublicKey: fails on bytes that are no curve point.
SetTheirPublicKeyOK(theirPubKey) == theirPubKey # BadKey /\ theirPubKey # NoKey

SetTheirPublicKey(e, theirPubKey) == [e EXCEPT !.theirPublicKey = theirPubKey]

ZeroAuthenticator ==
    [role |-> "", secret |-> {}, mine |-> NoKey, theirs |-> NoKey, psk |-> ""]

\* Encryptor.makeAuthenticator: H(role, shared, my public, their public, psk)
makeAuthenticator(e, authString) ==
    [role   |-> authString,
     secret |-> SharedSecret(e),
     mine   |-> e.myKey,
     theirs |-> e.theirPublicKey,
     psk    |-> e.PresharedSecret]

\* The authenticators are only filled in by SetTheirPublicKey, and only
\* when a pre-shared secret is configured.
GetMyAuthenticator(e) ==
    IF e.theirPublicKey # NoKey /\ e.PresharedSecret # ""
    THEN makeAuthenticator(e, "client") ELSE ZeroAuthenticator

GetTheirAuthenticator(e) ==
    IF e.theirPublicKey # NoKey /\ e.PresharedSecret # ""
    THEN makeAuthenticator(e, "server") ELSE ZeroAuthenticator

\* ShouldRenegotiate as it would be with the threshold itself included.
ShouldRenegotiateAtThreshold(e) == e.nonce >= RenegotiateAfter

ShouldRenegotiate(e) == e.nonce > RenegotiateAfter

\* The key material a frame is protected with: makeKey("client_*")
\* for frames this side writes, makeKey("server_*") for frames it reads.
ClearKey == [dir |-> "clear", secret |-> {}]
MyKeys(e)    == [dir |-> "client", secret |-> SharedSecret(e)]
TheirKeys(e) == [dir |-> "server", secret |-> SharedSecret(e)]

\* Encryptor.Encrypt followed by Encryptor.Sign: the frame carries the
\* nonce GetNonce returned and is bound to this engine's write and mac key.
EncryptAndSign(e, pkt) == [key |-> MyKeys(e), nonce |-> e.nonce, pkt |-> pkt]

\* Encryptor.GetNonce: e.nonce++ on a uint16.
AfterEncrypt(e) == [e EXCEPT !.nonce = (e.nonce + 1) % SeqMod]

\* CheckSignature as it would be if it accepted every signature.
AnySignatureChecks(e, data) == TRUE

\* Encryptor.CheckSignature: the truncated hash under theirMacKey matches.
CheckSignature(e, data) == data.key = TheirKeys(e)

\* A nil *Encryptor (Session.Encryptor without encryption, Session.NewEncryptor
\* outside a renegotiation).
NilEncryptor ==
    [PresharedSecret |-> "", myKey |-> NoKey, theirPublicKey |-> NoKey, nonce |-> 0]

\* ------------------------------------------------------------------ frames
Packet(type, id) ==
    [PacketType |-> type, SessionID |-> id, Seq |-> 0, Ack |-> 0,
     Options |-> 0, Data |-> <<>>, Subtype |-> 0, PublicKey |-> NoKey,
     Authenticator |-> ZeroAuthenticator]

CreateSYN(id, seq, options) ==
    [Packet("SYN", id) EXCEPT !.Seq = seq, !.Options = options]

CreateMSG(id, seq, ack, data) ==
    [Packet("MSG", id) EXCEPT !.Seq = seq, !.Ack = ack, !.Data = data]

CreateFIN(id) == Packet("FIN", id)

CreatePING(id, data) == [Packet("PING", id) EXCEPT !.Data = data]

CreateENCInit(id, publicKey) ==
    [Packet("ENC", id) EXCEPT !.Subtype = EncSubtypeInit, !.PublicKey = publicKey]

CreateENCAuth(id, authenticator) ==
    [Packet("ENC", id) EXCEPT !.Subtype = EncSubtypeAuth,
                              !.Authenticator = authenticator]

\* What protocol.Parse returns with an error, and a nil *Packet.
Malformed == Packet("Malformed", 0)
NoPacket  == Packet("nil", 0)

\* Bytes on the wire: a serialized frame, in clear or encrypted and signed.
Clear(pkt) == [key |-> ClearKey, nonce |-> 0, pkt |-> pkt]
NoFrame    == Clear(NoPacket)      \* GetOutgoing returned nil

\* ------------------------------------------------------- process settings
VARIABLES
    DoEncryption,      \* session.DoEncryption
    PresharedSecret,   \* session.PresharedSecret
    sess,              \* the client's Session, with its Driver and engines
    exited,            \* the process ended (os.Exit, or a run-time panic)
    last,              \* the last call made on the session: its arguments,
                       \* the session it acted on and what it returned
    peer,              \* the remote end's Session (NetSpec)
    toPeer,            \* frames the client has put on the channel
    toClient,          \* frames the peer has put on the channel
    ctl,               \* the Controller: its sessions, cursor and ceiling
    drv,               \* a Driver polled on its own
    cmd,               \* the command Driver: its stream and its responses
    conc,              \* goroutines, the locks they hold and wait for
    hist,              \* what the calls made so far have returned
    codec              \* a frame on its way through a codec

\* The parts a specification does not use are absent from it.
Absent == <<>>
parts == <<ctl, drv, cmd, conc, hist, codec>>
PartsAbsent ==
    /\ ctl = Absent
    /\ drv = Absent
    /\ cmd = Absent
    /\ conc = Absent
    /\ hist = Absent
    /\ codec = Absent

vars == <<DoEncryption, PresharedSecret, sess, exited, last,
          peer, toPeer, toClient, ctl, drv, cmd, conc, hist, codec>>

\* ------------------------------------------------------- Application Driver
\* Bytes of the two applications: the client's k-th byte is k, the peer's
\* is 100 + k.
AppByte(side, k) == IF side = "peer" THEN 100 + k ELSE k

AppStream(side) == [k \in 1..MaxStream |-> AppByte(side, k)]

PingData == [k \in 1..PingLength |-> 200 + k]

\* NewConsoleDriver / NewExecDriver / NewPingDriver
NewDriver(kind, side) ==
    [kind         |-> kind,
     side         |-> side,
     outgoingData |-> <<>>,
     isShutdown   |-> FALSE,
     readerDone   |-> FALSE,   \* the goroutine reading the input has returned
     alreadySent  |-> FALSE,
     produced     |-> 0,       \* bytes the application has written so far
     received     |-> <<>>,    \* bytes DataReceived handed to the application
     closed       |-> 0]       \* calls of Close

\* ConsoleDriver.readStdin / ExecDriver.readOutput: one more byte read.
DriverProduce(d) ==
    [d EXCEPT !.outgoingData = Append(@, AppByte(d.side, d.produced + 1)),
              !.produced = @ + 1]

\* ConsoleDriver.readStdin at EOF, the goroutine waiting for the child.
DriverFinish(d) == [d EXCEPT !.isShutdown = TRUE, !.readerDone = TRUE]

\* Driver.GetOutgoing(-1): everything buffered, or nil once done.
DriverGetOutgoing(d) ==
    IF d.kind = "ping"
    THEN IF d.alreadySent
         THEN [d |-> d, data |-> <<>>, done |-> FALSE]
         ELSE [d |-> [d EXCEPT !.alreadySent = TRUE], data |-> PingData,
               done |-> FALSE]
    ELSE IF d.isShutdown /\ Len(d.outgoingData) = 0
         THEN [d |-> d, data |-> <<>>, done |-> TRUE]
         ELSE [d |-> [d EXCEPT !.outgoingData = <<>>],
               data |-> d.outgoingData, done |-> FALSE]

\* Driver.DataReceived: the ping driver ends the process on its own echo.
DriverDataReceived(d, data) ==
    IF d.kind = "ping"
    THEN [d |-> [d EXCEPT !.received = @ \o data], exit |-> (data = PingData)]
    ELSE [d |-> [d EXCEPT !.received = @ \o data], exit |-> FALSE]

\* Driver.Close
DriverClose(d) == [d EXCEPT !.isShutdown = TRUE, !.closed = @ + 1]

\* ------------------------------------------------------------------ Session
\* New as it would be if it did not look at DoEncryption.
NewIgnoringDoEncryption(kind, side, isn, keyPair) ==
    [ID       |-> 1,
     State    |-> StateBeforeInit,
     TheirSeq |-> 0,
     MySeq    |-> isn,
     Name     |-> kind,
     Options  |-> 0,
     IsCommand |-> FALSE,
     IsPing    |-> (kind = "ping"),
     Driver    |-> NewDriver(kind, side),
     OutgoingBuffer |-> <<>>,
     Encryptor    |-> NewEncryptor(PresharedSecret, keyPair),
     NewEncryptor |-> NilEncryptor,
     sinceLastTransmit   |-> PacketDelay + 1,
     MissedTransmissions |-> 0,
     isShutdown          |-> FALSE]

\* session.New, followed by the NewXSession constructor's driver.
New(kind, side, isn, keyPair) ==
    [ID       |-> 1,
     State    |-> IF DoEncryption THEN StateBeforeInit ELSE StateNew,
     TheirSeq |-> 0,
     MySeq    |-> isn,
     Name     |-> kind,
     Options  |-> 0,
     IsCommand |-> FALSE,
     IsPing    |-> (kind = "ping"),
     Driver    |-> NewDriver(kind, side),
     OutgoingBuffer |-> <<>>,
     Encryptor    |-> IF DoEncryption
                      THEN NewEncryptor(PresharedSecret, keyPair)
                      ELSE NilEncryptor,
     NewEncryptor |-> NilEncryptor,
     sinceLastTransmit   |-> PacketDelay + 1,   \* LastTransmit is the zero time
     MissedTransmissions |-> 0,
     isShutdown          |-> FALSE]

\* shouldEncrypt as it would be without the test of s.State.
encryptInEveryState(s) == DoEncryption

shouldEncrypt(s) == DoEncryption /\ s.State # StateBeforeInit

\* canTransmitYet as it would be without the comparison with PacketDelay.
canTransmitAlways(s) == TRUE

\* time.Since(LastTransmit) > PacketDelay; the zero time is older than any delay.
canTransmitYet(s) == s.sinceLastTransmit > PacketDelay

\* LastTransmit = time.Time{}
ZeroLastTransmit(s) == [s EXCEPT !.sinceLastTransmit = PacketDelay + 1]

Kill(s) ==
    IF s.isShutdown THEN s
    ELSE [s EXCEPT !.isShutdown = TRUE, !.Driver = DriverClose(@)]

Destroy(s) ==
    IF ~s.isShutdown
    THEN [s EXCEPT !.isShutdown = TRUE, !.Driver = DriverClose(@)]
    ELSE s

pollDriverForData(s) ==
    LET r  == DriverGetOutgoing(s.Driver)
        s1 == [s EXCEPT !.Driver = r.d]
    IN  IF r.done
        THEN IF Len(s.OutgoingBuffer) = 0 THEN Kill(s1) ELSE s1
        ELSE [s1 EXCEPT !.OutgoingBuffer = @ \o r.data]

\* What GetOutgoing hands back: the session as it leaves it, the bytes it
\* returns, and whether the process ended inside the call.
Sent(s, out, exit) == [s |-> s, out |-> out, exit |-> exit]

\* BuildPacket as it would be if BeforeAuth sent the key-init frame again.
BuildPacketWithoutAuth(s, maxLength, keyPair) ==
    IF s.IsPing
    THEN LET dataLen == Min(Len(s.OutgoingBuffer), maxLength - PINGSize)
         IN  IF dataLen < 0 THEN Sent(s, NoPacket, TRUE)
             ELSE Sent(s, CreatePING(s.ID, SubSeq(s.OutgoingBuffer, 1, dataLen)),
                       FALSE)
    ELSE IF s.State = StateBeforeInit
    THEN Sent(s, CreateENCInit(s.ID, s.Encryptor.myKey), FALSE)
    ELSE IF s.State = StateBeforeAuth
    THEN Sent(s, CreateENCInit(s.ID, s.Encryptor.myKey), FALSE)
    ELSE IF s.State = StateNew
    THEN Sent(s, CreateSYN(s.ID, s.MySeq,
                           (IF s.IsCommand THEN OptCommand ELSE 0)
                           + (IF s.Name # "" THEN OptName ELSE 0)), FALSE)
    ELSE IF shouldEncrypt(s) /\ ShouldRenegotiate(s.Encryptor)
    THEN IF s.NewEncryptor # NilEncryptor
         THEN Sent(s, NoPacket, FALSE)
         ELSE Sent([s EXCEPT !.NewEncryptor =
                                 NewEncryptor(PresharedSecret, keyPair)],
                   CreateENCInit(s.ID, keyPair), FALSE)
    ELSE LET dataLen == Min(Len(s.OutgoingBuffer), maxLength - MSGSize)
         IN  IF dataLen < 0 THEN Sent(s, NoPacket, TRUE)
             ELSE IF dataLen = 0 /\ s.isShutdown
             THEN Sent(s, CreateFIN(s.ID), FALSE)
             ELSE Sent(s, CreateMSG(s.ID, s.MySeq, s.TheirSeq,
                                    SubSeq(s.OutgoingBuffer, 1, dataLen)), FALSE)

\* BuildPacket as it would be if the MSG read took the bytes out of the
\* buffer.
BuildPacketConsuming(s, maxLength, keyPair) ==
    IF s.IsPing
    THEN LET dataLen == Min(Len(s.OutgoingBuffer), maxLength - PINGSize)
         IN  IF dataLen < 0 THEN Sent(s, NoPacket, TRUE)
             ELSE Sent(s, CreatePING(s.ID, SubSeq(s.OutgoingBuffer, 1, dataLen)),
                       FALSE)
    ELSE IF s.State = StateBeforeInit
    THEN Sent(s, CreateENCInit(s.ID, s.Encryptor.myKey), FALSE)
    ELSE IF s.State = StateBeforeAuth
    THEN Sent(s, CreateENCAuth(s.ID, GetMyAuthenticator(s.Encryptor)), FALSE)
    ELSE IF s.State = StateNew
    THEN Sent(s, CreateSYN(s.ID, s.MySeq,
                           (IF s.IsCommand THEN OptCommand ELSE 0)
                           + (IF s.Name # "" THEN OptName ELSE 0)), FALSE)
    ELSE IF shouldEncrypt(s) /\ ShouldRenegotiate(s.Encryptor)
    THEN IF s.NewEncryptor # NilEncryptor
         THEN Sent(s, NoPacket, FALSE)
         ELSE Sent([s EXCEPT !.NewEncryptor =
                                 NewEncryptor(PresharedSecret, keyPair)],
                   CreateENCInit(s.ID, keyPair), FALSE)
    ELSE LET dataLen == Min(Len(s.OutgoingBuffer), maxLength - MSGSize)
         IN  IF dataLen < 0 THEN Sent(s, NoPacket, TRUE)
             ELSE IF dataLen = 0 /\ s.isShutdown
             THEN Sent(s, CreateFIN(s.ID), FALSE)
             ELSE Sent([s EXCEPT !.OutgoingBuffer =
                                     SubSeq(@, dataLen + 1, Len(@))],
                       CreateMSG(s.ID, s.MySeq, s.TheirSeq,
                                 SubSeq(s.OutgoingBuffer, 1, dataLen)), FALSE)

\* The frame GetOutgoing builds (the switch on s.State, and the ping case).
\* make([]byte, dataLen) with a negative dataLen is a run-time panic.
BuildPacket(s, maxLength, keyPair) ==
    IF s.IsPing
    THEN LET dataLen == Min(Len(s.OutgoingBuffer), maxLength - PINGSize)
         IN  IF dataLen < 0 THEN Sent(s, NoPacket, TRUE)
             ELSE Sent(s, CreatePING(s.ID, SubSeq(s.OutgoingBuffer, 1, dataLen)),
                       FALSE)
    ELSE IF s.State = StateBeforeInit
    THEN Sent(s, CreateENCInit(s.ID, s.Encryptor.myKey), FALSE)
    ELSE IF s.State = StateBeforeAuth
    THEN Sent(s, CreateENCAuth(s.ID, GetMyAuthenticator(s.Encryptor)), FALSE)
    ELSE IF s.State = StateNew
    THEN Sent(s, CreateSYN(s.ID, s.MySeq,
                           (IF s.IsCommand THEN OptCommand ELSE 0)
                           + (IF s.Name # "" THEN OptName ELSE 0)), FALSE)
    ELSE IF shouldEncrypt(s) /\ ShouldRenegotiate(s.Encryptor)
    THEN IF s.NewEncryptor # NilEncryptor
         THEN Sent(s, NoPacket, FALSE)
         ELSE Sent([s EXCEPT !.NewEncryptor =
                                 NewEncryptor(PresharedSecret, keyPair)],
                   CreateENCInit(s.ID, keyPair), FALSE)
    ELSE LET dataLen == Min(Len(s.OutgoingBuffer), maxLength - MSGSize)
         IN  IF dataLen < 0 THEN Sent(s, NoPacket, TRUE)
             ELSE IF dataLen = 0 /\ s.isShutdown
             THEN Sent(s, CreateFIN(s.ID), FALSE)
             ELSE Sent(s, CreateMSG(s.ID, s.MySeq, s.TheirSeq,
                                    SubSeq(s.OutgoingBuffer, 1, dataLen)), FALSE)

\* GetOutgoing as it would be if it counted every call, also those that
\* return nothing because the delay has not passed.
GetOutgoingCountingCalls(s0, maxLength0, keyPair) ==
    LET s         == pollDriverForData(s0)
        maxLength == IF shouldEncrypt(s) THEN maxLength0 - EncryptOverhead
                     ELSE maxLength0
        built     == BuildPacket(s, maxLength, keyPair)
        e         == built.s.Encryptor
    IN  IF ~canTransmitYet(s)
        THEN Sent([s EXCEPT !.MissedTransmissions = @ + 1], NoFrame, FALSE)
        ELSE IF shouldEncrypt(s) /\ maxLength <= 0 THEN Sent(s, NoFrame, TRUE)
        ELSE IF built.exit THEN Sent(built.s, NoFrame, TRUE)
        ELSE IF built.out = NoPacket THEN Sent(built.s, NoFrame, FALSE)
        ELSE Sent([built.s EXCEPT
                      !.Encryptor = IF shouldEncrypt(s) THEN AfterEncrypt(e) ELSE e,
                      !.sinceLastTransmit = 0,
                      !.MissedTransmissions = @ + 1],
                  IF shouldEncrypt(s) THEN EncryptAndSign(e, built.out)
                  ELSE Clear(built.out),
                  FALSE)

\* Session.GetOutgoing
GetOutgoing(s0, maxLength0, keyPair) ==
    LET s         == pollDriverForData(s0)
        maxLength == IF shouldEncrypt(s) THEN maxLength0 - EncryptOverhead
                     ELSE maxLength0
        built     == BuildPacket(s, maxLength, keyPair)
        e         == built.s.Encryptor
    IN  IF ~canTransmitYet(s) THEN Sent(s, NoFrame, FALSE)
        ELSE IF shouldEncrypt(s) /\ maxLength <= 0 THEN Sent(s, NoFrame, TRUE)
        ELSE IF built.exit THEN Sent(built.s, NoFrame, TRUE)
        ELSE IF built.out = NoPacket THEN Sent(built.s, NoFrame, FALSE)
        ELSE Sent([built.s EXCEPT
                      !.Encryptor = IF shouldEncrypt(s) THEN AfterEncrypt(e) ELSE e,
                      !.sinceLastTransmit = 0,
                      !.MissedTransmissions = @ + 1],
                  IF shouldEncrypt(s) THEN EncryptAndSign(e, built.out)
                  ELSE Clear(built.out),
                  FALSE)

\* What a handler hands back: the session, its return value (send right
\* away), and whether it ended the process.
Handled(s, ret, exit) == [s |-> s, ret |-> ret, exit |-> exit]

\* handleSYN as it would be without the test of s.State.
handleSYNInAnyState(s, pkt) ==
    Handled([s EXCEPT !.TheirSeq = pkt.Seq,
                      !.Options = pkt.Options,
                      !.MissedTransmissions = 0,
                      !.State = StateEstablished], TRUE, FALSE)

handleSYN(s, pkt) ==
    IF s.State = StateNew
    THEN Handled([s EXCEPT !.TheirSeq = pkt.Seq,
                           !.Options = pkt.Options,
                           !.MissedTransmissions = 0,
                           !.State = StateEstablished], TRUE, FALSE)
    ELSE Handled(s, FALSE, FALSE)

\* The acknowledged byte count as it would be on integers that do not wrap.
BytesAckedNoWrap(s, pkt) == IF pkt.Ack >= s.MySeq THEN pkt.Ack - s.MySeq ELSE 0

\* (pkt.MSG.Ack - s.MySeq) & 0xFFFF on uint16
BytesAcked(s, pkt) == (pkt.Ack - s.MySeq + SeqMod) % SeqMod

\* handleMSG as it would be without the comparison of sequence numbers.
AnySeqMatches(s, pkt) == TRUE

\* pkt.MSG.Seq == s.TheirSeq
SeqMatches(s, pkt) == pkt.Seq = s.TheirSeq

\* handleMSG as it would be without the comparison against the buffer.
AnyAckInBuffer(s, pkt) == TRUE

\* int(bytesAcked) <= len(s.OutgoingBuffer)
AckInBuffer(s, pkt) == BytesAcked(s, pkt) <= Len(s.OutgoingBuffer)

\* The accepting branch as it would be if it did not advance TheirSeq.
AcceptMSGKeepingTheirSeq(s, pkt) ==
    LET bytesAcked == BytesAcked(s, pkt)
        dr == IF Len(pkt.Data) > 0 THEN DriverDataReceived(s.Driver, pkt.Data)
              ELSE [d |-> s.Driver, exit |-> FALSE]
        s1 == [s EXCEPT
                 !.MissedTransmissions = 0,
                 !.OutgoingBuffer = SubSeq(@, bytesAcked + 1, Len(@)),
                 !.MySeq = (@ + bytesAcked) % SeqMod,
                 !.Driver = dr.d]
    IN  Handled(IF bytesAcked > 0 \/ Len(pkt.Data) > 0
                THEN ZeroLastTransmit(s1) ELSE s1,
                bytesAcked > 0, dr.exit)

\* The accepting branch of handleMSG.
AcceptMSG(s, pkt) ==
    LET bytesAcked == BytesAcked(s, pkt)
        dr == IF Len(pkt.Data) > 0 THEN DriverDataReceived(s.Driver, pkt.Data)
              ELSE [d |-> s.Driver, exit |-> FALSE]
        s1 == [s EXCEPT
                 !.MissedTransmissions = 0,
                 !.TheirSeq = (@ + Len(pkt.Data)) % SeqMod,
                 !.OutgoingBuffer = SubSeq(@, bytesAcked + 1, Len(@)),
                 !.MySeq = (@ + bytesAcked) % SeqMod,
                 !.Driver = dr.d]
    IN  Handled(IF bytesAcked > 0 \/ Len(pkt.Data) > 0
                THEN ZeroLastTransmit(s1) ELSE s1,
                bytesAcked > 0, dr.exit)

handleMSG(s, pkt) ==
    IF s.State # StateEstablished THEN Handled(s, FALSE, FALSE)
    ELSE IF SeqMatches(s, pkt)
    THEN IF AckInBuffer(s, pkt) THEN AcceptMSG(s, pkt)
         ELSE Handled(s, FALSE, FALSE)
    ELSE Handled(s, FALSE, FALSE)

\* handleFIN as it would be if it acted in Established only.
handleFINOnlyEstablished(s, pkt) ==
    IF s.State # StateEstablished THEN Handled(s, FALSE, FALSE)
    ELSE Handled(Kill([ZeroLastTransmit(s) EXCEPT !.MissedTransmissions = 0]),
                 TRUE, FALSE)

handleFIN(s, pkt) ==
    Handled(Kill([ZeroLastTransmit(s) EXCEPT !.MissedTransmissions = 0]),
            TRUE, FALSE)

\* handleENC as it would be if key-init always led to the auth phase.
AlwaysToBeforeAuth == StateBeforeAuth

\* The state handleENC moves to after the peer's key-init in BeforeInit.
AfterKeyInit == IF PresharedSecret # "" THEN StateBeforeAuth ELSE StateNew

\* handleENC as it would be without the comparison of authenticators.
AnyAuthenticatorMatches(s, pkt) == TRUE

\* bytes.Equal(pkt.ENC.Authenticator[:], s.Encryptor.GetTheirAuthenticator())
AuthenticatorMatches(s, pkt) ==
    pkt.Authenticator = GetTheirAuthenticator(s.Encryptor)

\* handleENC as it would be if the swap left the pending slot as it was.
handleENCKeepingPending(s, pkt) ==
    IF s.State = StateBeforeInit
    THEN IF pkt.Subtype # EncSubtypeInit THEN Handled(s, FALSE, TRUE)
         ELSE IF ~SetTheirPublicKeyOK(pkt.PublicKey) THEN Handled(s, FALSE, TRUE)
         ELSE Handled([s EXCEPT
                         !.Encryptor = SetTheirPublicKey(@, pkt.PublicKey),
                         !.State = AfterKeyInit], TRUE, FALSE)
    ELSE IF s.State = StateBeforeAuth
    THEN IF pkt.Subtype # EncSubtypeAuth THEN Handled(s, FALSE, TRUE)
         ELSE IF ~AuthenticatorMatches(s, pkt) THEN Handled(s, FALSE, TRUE)
         ELSE Handled([s EXCEPT !.State = StateNew], TRUE, FALSE)
    ELSE IF s.State = StateEstablished
    THEN IF s.NewEncryptor = NilEncryptor THEN Handled(s, FALSE, TRUE)
         ELSE IF ~SetTheirPublicKeyOK(pkt.PublicKey) THEN Handled(s, FALSE, TRUE)
         ELSE Handled([s EXCEPT
                         !.Encryptor = SetTheirPublicKey(s.NewEncryptor,
                                                         pkt.PublicKey)],
                      TRUE, FALSE)
    ELSE Handled(s, FALSE, TRUE)

handleENC(s, pkt) ==
    IF s.State = StateBeforeInit
    THEN IF pkt.Subtype # EncSubtypeInit THEN Handled(s, FALSE, TRUE)
         ELSE IF ~SetTheirPublicKeyOK(pkt.PublicKey) THEN Handled(s, FALSE, TRUE)
         ELSE Handled([s EXCEPT
                         !.Encryptor = SetTheirPublicKey(@, pkt.PublicKey),
                         !.State = AfterKeyInit], TRUE, FALSE)
    ELSE IF s.State = StateBeforeAuth
    THEN IF pkt.Subtype # EncSubtypeAuth THEN Handled(s, FALSE, TRUE)
         ELSE IF ~AuthenticatorMatches(s, pkt) THEN Handled(s, FALSE, TRUE)
         ELSE Handled([s EXCEPT !.State = StateNew], TRUE, FALSE)
    ELSE IF s.State = StateEstablished
    THEN IF s.NewEncryptor = NilEncryptor THEN Handled(s, FALSE, TRUE)
         ELSE IF ~SetTheirPublicKeyOK(pkt.PublicKey) THEN Handled(s, FALSE, TRUE)
         ELSE Handled([s EXCEPT
                         !.Encryptor = SetTheirPublicKey(s.NewEncryptor,
                                                         pkt.PublicKey),
                         !.NewEncryptor = NilEncryptor], TRUE, FALSE)
    ELSE Handled(s, FALSE, TRUE)

\* The switch on pkt.PacketType at the end of DataIncoming.
Dispatch(s, pkt) ==
    IF pkt.PacketType = "SYN" THEN handleSYN(s, pkt)
    ELSE IF pkt.PacketType = "MSG" THEN handleMSG(s, pkt)
    ELSE IF pkt.PacketType = "FIN" THEN handleFIN(s, pkt)
    ELSE IF pkt.PacketType = "ENC" THEN handleENC(s, pkt)
    ELSE Handled(s, FALSE, FALSE)

\* Session.DataIncoming on the bytes `data`; `pkt` is what protocol.Parse
\* makes of them once they are verified and decrypted (or read as they are).
DataIncoming(s0, data, pkt) ==
    LET s == pollDriverForData(s0)
    IN  IF shouldEncrypt(s) /\ ~CheckSignature(s.Encryptor, data)
        THEN Handled(s, FALSE, FALSE)
        ELSE IF pkt = Malformed THEN Handled(s, FALSE, FALSE)
        ELSE IF s.IsPing /\ pkt.PacketType = "PING"
        THEN LET dr == DriverDataReceived(s.Driver, pkt.Data)
             IN  Handled([s EXCEPT !.Driver = dr.d], TRUE, dr.exit)
        ELSE Dispatch(s, pkt)

\* ------------------------------------------------------------- the channel
\* The transport between the two ends: every frame ever put on it, and the
\* one put on it last. A frame on the channel can be read any number of
\* times, in any order, or never.
EmptyChannel == [sent |-> {}, newest |-> NoFrame]

Put(ch, frame) ==
    IF frame = NoFrame THEN ch
    ELSE [sent |-> ch.sent \cup {frame}, newest |-> frame]

\* ------------------------------------------------------------ environment
Kinds          == {"console"}
InitialSeqs    == {MaxInitialSeq}
ClientKeyPairs == {"c1", "c2"}
ServerKey      == "s1"
Secrets        == {"", "hunter2"}
MaxLengths     == {MSGSize + EncryptOverhead + 1}

\* The record kept of the last call made on the session: the operation; for
\* DataIncoming the key the bytes were protected with and the frame Parse
\* read; for GetOutgoing the frame returned; the call's return value (for
\* GetOutgoing: whether it returned a frame); the state the call found the
\* session in; and how many bytes it retired from the outgoing buffer and
\* handed to the driver.
Last(op, key, pkt, ret, from, acked, delivered) ==
    [op |-> op, key |-> key, pkt |-> pkt, ret |-> ret, from |-> from,
     acked |-> acked, delivered |-> delivered]

\* Steps that are no call of GetOutgoing or DataIncoming leave this record.
Quiet(s) == Last("none", ClearKey, NoPacket, FALSE, s.State, 0, 0)

Init ==
    /\ DoEncryption \in BOOLEAN
    /\ PresharedSecret \in Secrets
    /\ \E kind \in Kinds, isn \in InitialSeqs :
          sess = New(kind, "client", isn, "c1")
    /\ exited = FALSE
    /\ last = Quiet(sess)
    /\ peer = New("console", "peer", 0, ServerKey)
    /\ toPeer = EmptyChannel
    /\ toClient = EmptyChannel
    /\ PartsAbsent

\* Frames a remote end, honest or not, can hand to the session: every frame
\* type, with sequence and acknowledgment numbers at and around the ones
\* the session expects.
AckChoices(s) ==
    {(s.MySeq + n) % SeqMod : n \in {0, 1, Len(s.OutgoingBuffer)}}

\* Acknowledgments of more than the buffer holds: one byte too many, and
\* one byte behind MySeq.
BadAckChoices(s) ==
    {(s.MySeq + n) % SeqMod : n \in {Len(s.OutgoingBuffer) + 1, SeqMod - 1}}

DataChoices(s) ==
    {d \in {<<>>, <<AppByte("peer", 1)>>} :
        Len(s.Driver.received) + Len(d) <= MaxReceived}

\* The longest of these payloads.
FullData(s) ==
    IF <<AppByte("peer", 1)>> \in DataChoices(s)
    THEN <<AppByte("peer", 1)>> ELSE <<>>

AuthChoices(s) ==
    {makeAuthenticator(s.Encryptor, "server"),
     makeAuthenticator(s.Encryptor, "client"),
     [makeAuthenticator(s.Encryptor, "server") EXCEPT !.psk = "other"],
     ZeroAuthenticator}

IncomingPackets(s) ==
    {CreateSYN(s.ID, 0, 0), CreateSYN(s.ID, SeqMod - 1, OptName)}
    \cup {CreateMSG(s.ID, s.TheirSeq, ack, d) :
            ack \in AckChoices(s), d \in DataChoices(s)}
    \cup {CreateMSG(s.ID, s.TheirSeq, ack, FullData(s)) :
            ack \in BadAckChoices(s)}
    \cup {CreateMSG(s.ID, (s.TheirSeq + 1) % SeqMod, s.MySeq, FullData(s))}
    \cup {CreateFIN(s.ID)}
    \cup {CreateENCInit(s.ID, k) : k \in {ServerKey, BadKey}}
    \cup {CreateENCAuth(s.ID, a) : a \in AuthChoices(s)}
    \cup {CreatePING(s.ID, PingData)}
    \cup {Malformed}

ForgedKey == [dir |-> "server", secret |-> {"forged"}]

Wire(k, p) == [key |-> k, nonce |-> 0, pkt |-> p]

\* The bytes handed to DataIncoming: every frame above as the peer would
\* send it to a session in this state (signed and encrypted for the active
\* engine once the session decrypts, in clear before), one frame in the
\* other form, and one signed with a key that is not the peer's.
IncomingData(s) ==
    {Wire(IF shouldEncrypt(s) THEN TheirKeys(s.Encryptor) ELSE ClearKey, p) :
        p \in IncomingPackets(s)}
    \cup {Wire(IF shouldEncrypt(s) THEN ClearKey ELSE TheirKeys(s.Encryptor),
               CreateFIN(s.ID)),
          Wire(ForgedKey, CreateFIN(s.ID))}

\* protocol.Parse on the bytes the session reads: the frame itself when the
\* bytes are in clear or were just decrypted; when encrypted bytes are read
\* without decryption the 5-byte header is intact and the body is whatever
\* the ciphertext happens to spell.
Readings(s, data) ==
    IF shouldEncrypt(s) \/ data.key = ClearKey THEN {data.pkt}
    ELSE {Malformed}
         \cup {p \in IncomingPackets(s) : p.PacketType = data.pkt.PacketType}

\* ---------------------------------------------------------------- actions
\* The counters a run may still raise.
CallBudget(s) ==
    /\ s.MissedTransmissions < MaxMissed
    /\ s.Encryptor.nonce < MaxNonce \/ s.Encryptor.nonce >= RenegotiateAfter

NetUnchanged == UNCHANGED <<peer, toPeer, toClient, parts>>

Settings == <<DoEncryption, PresharedSecret>>

GetOutgoingCall ==
    /\ ~exited
    /\ CallBudget(sess)
    /\ \E maxLength \in MaxLengths,
          keyPair \in ClientKeyPairs \ {sess.Encryptor.myKey} :
          LET r == GetOutgoing(sess, maxLength, keyPair)
          IN  /\ sess' = r.s
              /\ exited' = r.exit
              /\ last' = Last("GetOutgoing", r.out.key, r.out.pkt,
                              r.out # NoFrame, sess.State, 0, 0)
    /\ UNCHANGED Settings
    /\ NetUnchanged

DataIncomingCall ==
    /\ ~exited
    /\ LET s == pollDriverForData(sess)
       IN  \E data \in IncomingData(s) : \E pkt \in Readings(s, data) :
               LET r == DataIncoming(sess, data, pkt)
               IN  /\ sess' = r.s
                   /\ exited' = r.exit
                   /\ last' = Last("DataIncoming", data.key, pkt, r.ret,
                                   sess.State,
                                   Len(s.OutgoingBuffer) - Len(r.s.OutgoingBuffer),
                                   Len(r.s.Driver.received) - Len(s.Driver.received))
    /\ UNCHANGED Settings
    /\ NetUnchanged

\* Time passes: more than the packet delay since the last transmission.
Tick ==
    /\ ~exited
    /\ sess.sinceLastTransmit <= PacketDelay
    /\ sess' = [sess EXCEPT !.sinceLastTransmit = PacketDelay + 1]
    /\ last' = Quiet(sess)
    /\ UNCHANGED <<Settings, exited>>
    /\ NetUnchanged

\* The application writes a byte (the driver's reading goroutine).
Produce ==
    /\ ~exited
    /\ sess.Driver.kind # "ping"
    /\ ~sess.Driver.readerDone
    /\ sess.Driver.produced < MaxStream
    /\ sess' = [sess EXCEPT !.Driver = DriverProduce(@)]
    /\ last' = Quiet(sess)
    /\ UNCHANGED <<Settings, exited>>
    /\ NetUnchanged

\* The application's output ends (EOF on stdin, the child exits).
Finish ==
    /\ ~exited
    /\ sess.Driver.kind # "ping"
    /\ ~sess.Driver.readerDone
    /\ sess' = [sess EXCEPT !.Driver = DriverFinish(@)]
    /\ last' = Quiet(sess)
    /\ UNCHANGED <<Settings, exited>>
    /\ NetUnchanged

\* Session.Kill, as the Controller calls it.
KillCall ==
    /\ ~exited
    /\ sess' = Kill(sess)
    /\ last' = Quiet(sess)
    /\ UNCHANGED <<Settings, exited>>
    /\ NetUnchanged

DestroyCall ==
    /\ ~exited
    /\ sess' = Destroy(sess)
    /\ last' = Quiet(sess)
    /\ UNCHANGED <<Settings, exited>>
    /\ NetUnchanged

Next ==
    \/ GetOutgoingCall
    \/ DataIncomingCall
    \/ Tick
    \/ Produce
    \/ Finish
    \/ KillCall
    \/ DestroyCall

Spec == Init /\ [][Next]_vars

\* A session late in its life: Established over an encrypted channel, its
\* engine 0xFFF0 frames old, so that the next frames bring the renegotiation.
AgedInit ==
    /\ DoEncryption = TRUE
    /\ PresharedSecret = ""
    /\ sess = [New("console", "client", MaxInitialSeq, "c1") EXCEPT
                 !.State = StateEstablished,
                 !.Encryptor = [SetTheirPublicKey(@, ServerKey) EXCEPT
                                   !.nonce = RenegotiateAfter]]
    /\ exited = FALSE
    /\ last = Quiet(sess)
    /\ peer = New("console", "peer", 0, ServerKey)
    /\ toPeer = EmptyChannel
    /\ toClient = EmptyChannel
    /\ PartsAbsent

\* Sessions that require encryption, new ones and the aged one.
AgedSpec == ((Init /\ DoEncryption) \/ AgedInit) /\ [][Next]_vars

\* Sessions of either kind the client starts on its own, with a pre-shared
\* secret configured: a console session or, with --ping, a ping session.
AllKinds == {"console", "ping"}

KindsInit ==
    /\ DoEncryption \in BOOLEAN
    /\ PresharedSecret = "hunter2"
    /\ \E kind \in AllKinds, isn \in InitialSeqs :
          sess = New(kind, "client", isn, "c1")
    /\ exited = FALSE
    /\ last = Quiet(sess)
    /\ peer = New("console", "peer", 0, ServerKey)
    /\ toPeer = EmptyChannel
    /\ toClient = EmptyChannel
    /\ PartsAbsent

KindsSpec == KindsInit /\ [][Next]_vars

\* ------------------------------------------------- two ends and a channel
\* Two Established sessions without encryption, one the client's, one the
\* peer's (which follows the same rules: it is the same code), after the
\* exchange of SYNs gave each the other's initial sequence number. The
\* Controller's Heartbeat is off (MaxRetransmits < 0), so nothing reads
\* MissedTransmissions: the counter is not kept.
NetMaxLength == MSGSize + 1

PeerInitialSeq == SeqMod - 1

Uncounted(s) == [s EXCEPT !.MissedTransmissions = 0]

NetInit ==
    /\ DoEncryption = FALSE
    /\ PresharedSecret = ""
    /\ sess = [New("console", "client", MaxInitialSeq, "c1") EXCEPT
                 !.State = StateEstablished, !.TheirSeq = PeerInitialSeq]
    /\ peer = [New("console", "peer", PeerInitialSeq, ServerKey) EXCEPT
                 !.State = StateEstablished, !.TheirSeq = MaxInitialSeq]
    /\ exited = FALSE
    /\ last = Quiet(sess)
    /\ toPeer = EmptyChannel
    /\ toClient = EmptyChannel
    /\ PartsAbsent

\* The transport asks the client's session for a frame and sends it.
ClientSend ==
    /\ ~exited
    /\ LET r == GetOutgoing(sess, NetMaxLength, "c2")
       IN  /\ sess' = Uncounted(r.s)
           /\ exited' = r.exit
           /\ toPeer' = Put(toPeer, r.out)
    /\ UNCHANGED <<parts, Settings, last, peer, toClient>>

PeerSend ==
    /\ ~exited
    /\ LET r == GetOutgoing(peer, NetMaxLength, "s2")
       IN  /\ peer' = Uncounted(r.s)
           /\ exited' = r.exit
           /\ toClient' = Put(toClient, r.out)
    /\ UNCHANGED <<parts, Settings, last, sess, toPeer>>

\* A frame of the channel reaches the client's DataIncoming.
ClientReceive(frame) ==
    /\ ~exited
    /\ frame # NoFrame
    /\ LET r == DataIncoming(sess, frame, frame.pkt)
       IN  /\ sess' = r.s
           /\ exited' = r.exit
    /\ UNCHANGED <<parts, Settings, last, peer, toPeer, toClient>>

PeerReceive(frame) ==
    /\ ~exited
    /\ frame # NoFrame
    /\ LET r == DataIncoming(peer, frame, frame.pkt)
       IN  /\ peer' = r.s
           /\ exited' = r.exit
    /\ UNCHANGED <<parts, Settings, last, sess, toPeer, toClient>>

ClientReceiveAny == \E frame \in toClient.sent : ClientReceive(frame)

PeerReceiveAny == \E frame \in toPeer.sent : PeerReceive(frame)

ClientReceiveNewest == ClientReceive(toClient.newest)

PeerReceiveNewest == PeerReceive(toPeer.newest)

ClientTick ==
    /\ ~exited
    /\ sess.sinceLastTransmit <= PacketDelay
    /\ sess' = [sess EXCEPT !.sinceLastTransmit = PacketDelay + 1]
    /\ UNCHANGED <<parts, Settings, exited, last, peer, toPeer, toClient>>

PeerTick ==
    /\ ~exited
    /\ peer.sinceLastTransmit <= PacketDelay
    /\ peer' = [peer EXCEPT !.sinceLastTransmit = PacketDelay + 1]
    /\ UNCHANGED <<parts, Settings, exited, last, sess, toPeer, toClient>>

\* Either application writes a byte.
ClientProduce ==
    /\ ~exited
    /\ sess.Driver.produced < MaxClientStream
    /\ sess' = [sess EXCEPT !.Driver = DriverProduce(@)]
    /\ UNCHANGED <<parts, Settings, exited, last, peer, toPeer, toClient>>

PeerProduce ==
    /\ ~exited
    /\ peer.Driver.produced < MaxStream
    /\ peer' = [peer EXCEPT !.Driver = DriverProduce(@)]
    /\ UNCHANGED <<parts, Settings, exited, last, sess, toPeer, toClient>>

NetNext ==
    \/ ClientSend
    \/ PeerSend
    \/ ClientReceiveAny
    \/ PeerReceiveAny
    \/ ClientTick
    \/ PeerTick
    \/ ClientProduce
    \/ PeerProduce

NetSpec == NetInit /\ [][NetNext]_vars

\* The channel delivers infinitely often: both ends keep being asked for
\* frames, time passes, and the frame an end sent last keeps arriving.
NetFairness ==
    /\ WF_vars(ClientSend)
    /\ WF_vars(PeerSend)
    /\ WF_vars(ClientTick)
    /\ WF_vars(PeerTick)
    /\ WF_vars(ClientReceiveNewest)
    /\ WF_vars(PeerReceiveNewest)

FairNetSpec == NetInit /\ [][NetNext]_vars /\ NetFairness

\* ------------------------------------------------------------ Controller
\* The Controller with the one session the client registers at start, polled
\* by the transport's loop. MaxRetransmits is the ceiling SetMaxRetransmits
\* configured.
MaxRetransmits == 1

\* getNextActive: the registered session, unless it is shut down.
getNextActive == IF sess.isShutdown THEN {} ELSE {sess}

\* controller.GetOutgoing: the frame of the next active session, and whether
\* there is an active session at all.
ControllerGetOutgoing(maxLength, keyPair) ==
    IF getNextActive = {}
    THEN [s |-> sess, out |-> NoFrame, exit |-> FALSE, active |-> FALSE]
    ELSE LET r == GetOutgoing(sess, maxLength, keyPair)
         IN  [s |-> r.s, out |-> r.out, exit |-> r.exit, active |-> TRUE]

\* killIgnoredSessions
killIgnoredSessions(s) ==
    IF MaxRetransmits < 0 THEN s
    ELSE IF ~s.isShutdown /\ s.MissedTransmissions > MaxRetransmits
    THEN Kill(s) ELSE s

\* KillAllSessions
KillAllSessions(s) == IF ~s.isShutdown THEN Kill(s) ELSE s

\* Frames of a peer that follows the protocol and keeps its side open: its
\* SYN in answer to the session's, and in Established a MSG that
\* acknowledges everything sent so far.
PeerPackets(s) ==
    (IF s.State = StateNew /\ s.MissedTransmissions > 0
     THEN {CreateSYN(s.ID, 0, 0)} ELSE {})
    \cup (IF s.State = StateEstablished
          THEN {CreateMSG(s.ID, s.TheirSeq,
                          (s.MySeq + Len(s.OutgoingBuffer)) % SeqMod, <<>>)}
          ELSE {})

CtlInit ==
    /\ DoEncryption = FALSE
    /\ PresharedSecret = ""
    /\ sess = New("console", "client", MaxInitialSeq, "c1")
    /\ exited = FALSE
    /\ last = Quiet(sess)
    /\ peer = New("console", "peer", 0, ServerKey)
    /\ toPeer = EmptyChannel
    /\ toClient = EmptyChannel
    /\ PartsAbsent

\* Driver.doSend: one poll of the Controller; the process ends when the
\* Controller reports that no session is active.
DoSendCall ==
    /\ ~exited
    /\ sess.MissedTransmissions <= MaxRetransmits
    /\ LET r == ControllerGetOutgoing(NetMaxLength, "c2")
       IN  /\ sess' = r.s
           /\ exited' = (r.exit \/ ~r.active)
           /\ last' = Last("doSend", r.out.key, r.out.pkt, r.out # NoFrame,
                           sess.State, 0, 0)
    /\ UNCHANGED Settings
    /\ NetUnchanged

\* controller.DataIncoming on a frame of the peer.
ControllerDataIncomingCall ==
    /\ ~exited
    /\ \E pkt \in PeerPackets(pollDriverForData(sess)) :
          LET s == pollDriverForData(sess)
              r == DataIncoming(sess, Wire(ClearKey, pkt), pkt)
          IN  /\ sess' = r.s
              /\ exited' = r.exit
              /\ last' = Last("DataIncoming", ClearKey, pkt, r.ret, sess.State,
                              Len(s.OutgoingBuffer) - Len(r.s.OutgoingBuffer),
                              Len(r.s.Driver.received) - Len(s.Driver.received))
    /\ UNCHANGED Settings
    /\ NetUnchanged

\* controller.Heartbeat, on a receive timeout.
HeartbeatCall ==
    /\ ~exited
    /\ sess' = killIgnoredSessions(sess)
    /\ last' = Quiet(sess)
    /\ UNCHANGED <<Settings, exited>>
    /\ NetUnchanged

KillAllSessionsCall ==
    /\ ~exited
    /\ sess' = KillAllSessions(sess)
    /\ last' = Quiet(sess)
    /\ UNCHANGED <<Settings, exited>>
    /\ NetUnchanged

CtlNext ==
    \/ DoSendCall
    \/ ControllerDataIncomingCall
    \/ HeartbeatCall
    \/ KillAllSessionsCall
    \/ Tick
    \/ Produce
    \/ Finish

CtlSpec == CtlInit /\ [][CtlNext]_vars

\* The transport's loop polls again after every receive timeout, and time
\* passes.
CtlFairness == WF_vars(DoSendCall) /\ WF_vars(Tick)

FairCtlSpec == CtlSpec /\ CtlFairness


\* ------------------------------------------- the Controller's session list
\* The Controller with every session it holds. ctl.sessions is the slice
\* globalController.sessions (its first element is ctl.sessions[1]),
\* ctl.currentIndex the 0-based cursor, ctl.MaxRetransmits the package
\* variable SetMaxRetransmits assigns.
MaxSessions == 3      \* sessions ever registered in a run

\* Session ids are random 16-bit numbers, and two sessions may share one:
\* the id of the k-th session registered in a run.
SessionIDs(k) == 1 + ((k - 1) % 2)

\* controller.AddSession
AddSession(c, s) == [c EXCEPT !.sessions = Append(@, s)]

\* A frame for an id no registered session has.
UnknownFrame == Wire(ClearKey, CreateSYN(9, 0, 0))

\* A raw frame of fewer than 5 bytes.
ShortFrame == Wire(ClearKey, Packet("Short", 0))

\* protocol.PeekSessionID: bytes 3-4 of the raw frame, which are outside the
\* encrypted part; 0 with ok = FALSE for the error.
PeekSessionID(data) ==
    IF data.pkt.PacketType = "Short"
    THEN [id |-> 0, ok |-> FALSE]
    ELSE [id |-> data.pkt.SessionID, ok |-> TRUE]

\* getByID as it would be if it returned the first session of the list.
getByIDFirst(c, sessionID) == IF Len(c.sessions) > 0 THEN 1 ELSE 0

\* getByID: the position of the first session with this ID, 0 for nil.
getByID(c, sessionID) ==
    LET found == {i \in 1..Len(c.sessions) : c.sessions[i].ID = sessionID}
    IN  IF found = {} THEN 0
        ELSE CHOOSE i \in found : \A j \in found : i <= j

\* The loop of getNextActive: advance the cursor, return the session under
\* it unless it is shut down, stop once the cursor is back where it started.
RECURSIVE NextActiveLoop(_, _)
NextActiveLoop(c, startIndex) ==
    LET c1 == [c EXCEPT !.currentIndex = (@ + 1) % Len(c.sessions)]
    IN  IF ~c1.sessions[c1.currentIndex + 1].isShutdown
        THEN [c |-> c1, found |-> c1.currentIndex + 1]
        ELSE IF c1.currentIndex = startIndex
        THEN [c |-> c1, found |-> 0]
        ELSE NextActiveLoop(c1, startIndex)

\* getNextActive as it would be if every search started at the first session.
RegistryGetNextActiveFromFirst(c) ==
    IF Len(c.sessions) = 0 THEN [c |-> c, found |-> 0]
    ELSE NextActiveLoop([c EXCEPT !.currentIndex = Len(c.sessions) - 1],
                        Len(c.sessions) - 1)

\* getNextActive as it would be if the session under the cursor at the
\* start of the call were not looked at.
RegistryGetNextActiveButCurrent(c) ==
    IF Len(c.sessions) = 0 THEN [c |-> c, found |-> 0]
    ELSE LET r == NextActiveLoop(c, c.currentIndex)
         IN  IF r.found = c.currentIndex + 1 THEN [c |-> r.c, found |-> 0]
             ELSE r

\* getNextActive over the list: the Controller with its cursor moved, and
\* the position of the session returned (0 for nil).
RegistryGetNextActive(c) ==
    IF Len(c.sessions) = 0 THEN [c |-> c, found |-> 0]
    ELSE NextActiveLoop(c, c.currentIndex)

\* controller.GetOutgoing
RegistryGetOutgoing(c, maxLength, keyPair) ==
    LET n == RegistryGetNextActive(c)
    IN  IF n.found = 0
        THEN [c |-> n.c, found |-> 0, out |-> NoFrame, exit |-> FALSE,
              active |-> FALSE]
        ELSE LET r == GetOutgoing(n.c.sessions[n.found], maxLength, keyPair)
             IN  [c |-> [n.c EXCEPT !.sessions[n.found] = r.s],
                  found |-> n.found, out |-> r.out, exit |-> r.exit,
                  active |-> TRUE]

\* controller.DataIncoming
RegistryDataIncoming(c, data, pkt) ==
    LET peek == PeekSessionID(data)
        i    == getByID(c, peek.id)
    IN  IF ~peek.ok THEN [c |-> c, found |-> 0, ret |-> FALSE, exit |-> FALSE]
        ELSE IF i = 0 THEN [c |-> c, found |-> 0, ret |-> FALSE, exit |-> FALSE]
        ELSE LET r == DataIncoming(c.sessions[i], data, pkt)
             IN  [c |-> [c EXCEPT !.sessions[i] = r.s], found |-> i,
                  ret |-> r.ret, exit |-> r.exit]

\* killIgnoredSessions as it would be if a session were killed once its
\* counter reached the ceiling.
RegistryKillAtCeiling(c) ==
    IF c.MaxRetransmits < 0 THEN c
    ELSE [c EXCEPT !.sessions =
            [i \in 1..Len(c.sessions) |->
                IF ~c.sessions[i].isShutdown
                   /\ c.sessions[i].MissedTransmissions >= c.MaxRetransmits
                THEN Kill(c.sessions[i]) ELSE c.sessions[i]]]

\* killIgnoredSessions over the list
RegistryKillIgnoredSessions(c) ==
    IF c.MaxRetransmits < 0 THEN c
    ELSE [c EXCEPT !.sessions =
            [i \in 1..Len(c.sessions) |->
                IF ~c.sessions[i].isShutdown
                   /\ c.sessions[i].MissedTransmissions > c.MaxRetransmits
                THEN Kill(c.sessions[i]) ELSE c.sessions[i]]]

\* What a call on the Controller did: the call, the position of the session
\* it went to (0 for none), the frame's session id, what it returned, and
\* for every session that was not shut down the number of GetOutgoing calls
\* since its last turn.
Called(op, found, id, ret, waits) ==
    [op |-> op, found |-> found, id |-> id, ret |-> ret, waits |-> waits]

NewSession(id) == [New("console", "client", MaxInitialSeq, "c1") EXCEPT !.ID = id]

RegistryUnchanged ==
    UNCHANGED <<Settings, sess, last, peer, toPeer, toClient, drv, cmd, conc, codec>>

\* main: the settings, SetMaxRetransmits, the first session, then Run.
RegistryInit ==
    /\ DoEncryption = FALSE
    /\ codec = Absent
    /\ PresharedSecret = ""
    /\ sess = New("console", "client", MaxInitialSeq, "c1")
    /\ exited = FALSE
    /\ last = Quiet(sess)
    /\ peer = New("console", "peer", 0, ServerKey)
    /\ toPeer = EmptyChannel
    /\ toClient = EmptyChannel
    /\ \E ceiling \in {-1, MaxRetransmits} :
          ctl = [sessions |-> <<NewSession(SessionIDs(1))>>, currentIndex |-> 0,
                 MaxRetransmits |-> ceiling]
    /\ drv = Absent
    /\ cmd = Absent
    /\ conc = Absent
    /\ hist = Called("none", 0, 0, FALSE, <<0>>)

\* The CreateSession callback of the command driver: a new session is
\* appended to the list.
AddSessionCall ==
    /\ ~exited
    /\ Len(ctl.sessions) < MaxSessions
    /\ ctl' = AddSession(ctl, NewSession(SessionIDs(Len(ctl.sessions) + 1)))
    /\ hist' = Called("AddSession", 0, 0, FALSE, Append(hist.waits, 0))
    /\ UNCHANGED exited
    /\ RegistryUnchanged

\* doSend of the transport: controller.GetOutgoing, and os.Exit(0) when it
\* reports no active session.
RegistryDoSendCall ==
    /\ ~exited
    /\ \A i \in 1..Len(ctl.sessions) :
          ctl.sessions[i].MissedTransmissions <= MaxMissed
    /\ LET r == RegistryGetOutgoing(ctl, NetMaxLength, "c2")
       IN  /\ ctl' = r.c
           /\ exited' = (r.exit \/ ~r.active)
           /\ hist' = Called("doSend", r.found, 0,
                             [active |-> r.active, sent |-> r.out # NoFrame],
                             [i \in 1..Len(ctl.sessions) |->
                                 IF i = r.found \/ ctl.sessions[i].isShutdown
                                 THEN 0 ELSE hist.waits[i] + 1])
    /\ RegistryUnchanged

\* The frames the transport may read: for every session a frame of a peer
\* that follows the protocol, a frame it cannot parse, a frame for an id
\* that is not registered, and one of fewer than 5 bytes.
RegistryFrames ==
    UNION {PeerPackets(pollDriverForData(ctl.sessions[i]))
               \cup {[Malformed EXCEPT !.SessionID = ctl.sessions[i].ID]} :
           i \in 1..Len(ctl.sessions)}
    \cup {UnknownFrame.pkt, ShortFrame.pkt}

\* controller.DataIncoming on a frame read by the transport.
RegistryDataIncomingCall ==
    /\ ~exited
    /\ \E pkt \in RegistryFrames :
          LET r == RegistryDataIncoming(ctl, Wire(ClearKey, pkt), pkt)
          IN  /\ ctl' = r.c
              /\ exited' = r.exit
              /\ hist' = Called("DataIncoming", r.found, pkt.SessionID,
                                [short |-> (pkt = ShortFrame.pkt), ret |-> r.ret],
                                hist.waits)
    /\ RegistryUnchanged

\* controller.Heartbeat, on a receive timeout.
RegistryHeartbeatCall ==
    /\ ~exited
    /\ ctl' = RegistryKillIgnoredSessions(ctl)
    /\ hist' = Called("Heartbeat", 0, 0, FALSE, hist.waits)
    /\ UNCHANGED exited
    /\ RegistryUnchanged

\* Time passes: more than the packet delay for every session.
RegistryTick ==
    /\ ~exited
    /\ \E i \in 1..Len(ctl.sessions) :
          ctl.sessions[i].sinceLastTransmit <= PacketDelay
    /\ ctl' = [ctl EXCEPT !.sessions =
                 [i \in 1..Len(ctl.sessions) |->
                     [ctl.sessions[i] EXCEPT !.sinceLastTransmit = PacketDelay + 1]]]
    /\ hist' = Called("none", 0, 0, FALSE, hist.waits)
    /\ UNCHANGED exited
    /\ RegistryUnchanged

\* The application of the session main created ends (EOF, the child exits).
RegistryFinish ==
    /\ ~exited
    /\ ~ctl.sessions[1].Driver.readerDone
    /\ ctl' = [ctl EXCEPT !.sessions[1].Driver = DriverFinish(@)]
    /\ hist' = Called("none", 0, 0, FALSE, hist.waits)
    /\ UNCHANGED exited
    /\ RegistryUnchanged

RegistryNext ==
    \/ AddSessionCall
    \/ RegistryDoSendCall
    \/ RegistryDataIncomingCall
    \/ RegistryHeartbeatCall
    \/ RegistryTick
    \/ RegistryFinish

RegistrySpec == RegistryInit /\ [][RegistryNext]_vars


\* --------------------------------------------------- goroutines and locks
\* The transport loop, the tunnel reader and the goroutine of the service's
\* control loop as sequences of steps: taking
\* and releasing a sync.Mutex, a blocking I/O call (which begins and later
\* returns), and an assignment. conc.prog[t] is what goroutine t has still
\* to do in the call it is in, conc.held[l] the goroutine that holds lock l,
\* conc.io[t] the I/O call t is inside of. A Mutex is not reentrant: Lock
\* waits while anybody holds it, the caller included.
MaxFrames == 2        \* frames the transport reads in a run
MaxReads  == 1        \* reads of the tunnel's connection that return data

Goroutines   == {"transport", "reader", "service"}
SessionNames == {"command", "exec"}
SessionMu(n) == <<"Session.mu", n>>
DriverMu(n)  == <<"Driver.mu", n>>
ControllerMu == <<"Controller.mu", "">>
Locks ==
    {SessionMu(n) : n \in SessionNames} \cup {DriverMu(n) : n \in SessionNames}
    \cup {ControllerMu}

Step(op, arg) == [op |-> op, arg |-> arg]
Lock(l)       == Step("lock", l)
Unlock(l)     == Step("unlock", l)
IO(call)      == Step("io", <<call, "">>)
Do(what, n)   == Step("do", <<what, n>>)

\* The requests the server sends to the command session.
Commands ==
    {"ping", "exec", "download", "upload", "shutdown", "tunnelConnect",
     "tunnelData", "tunnelClose"}

\* Session.pollDriverForData: Driver.GetOutgoing locks the driver while it
\* drains its buffer.
StepsOfPoll(n) == <<Lock(DriverMu(n)), Unlock(DriverMu(n))>>

\* controller.KillAllSessions: under the Controller's lock, IsShutdown and
\* then Kill for every session of the list.
RECURSIVE StepsOfKillLoop(_)
StepsOfKillLoop(sessions) ==
    IF sessions = <<>> THEN <<>>
    ELSE <<Lock(SessionMu(Head(sessions))), Unlock(SessionMu(Head(sessions))),
           Do("Kill", Head(sessions))>>
         \o StepsOfKillLoop(Tail(sessions))

StepsOfKillAllSessions(sessions) ==
    <<Lock(ControllerMu)>> \o StepsOfKillLoop(sessions)
    \o <<Unlock(ControllerMu)>>

\* Session.Kill on a session that is not shut down: the flag, then
\* Driver.Close, which locks the driver.
StepsOfKill(n) ==
    <<Do("isShutdown", n), Lock(DriverMu(n)), Do("Close", n),
      Unlock(DriverMu(n))>>

\* The handlers of command.Driver.handlePacket, each followed by the append
\* of its response in processPackets when it returns one.
StepsOfHandlePacket(c, sessions) ==
    CASE c = "ping"     -> <<Do("respond", c)>>
      [] c = "exec"     -> <<Lock(ControllerMu), Do("AddSession", "exec"),
                             Unlock(ControllerMu), Do("respond", c)>>
      [] c = "download" -> <<IO("os.ReadFile"), Do("respond", c)>>
      [] c = "upload"   -> <<IO("os.WriteFile"), Do("respond", c)>>
      [] c = "shutdown" -> StepsOfKillAllSessions(sessions)
                           \o <<Do("respond", c)>>
      [] c = "tunnelConnect" ->
            <<IO("net.Dial"), Do("go tunnelReader", ""), Do("respond", c)>>
      [] c = "tunnelData" ->
            <<Lock(DriverMu("command")), Unlock(DriverMu("command")),
              IO("Conn.Write")>>
      [] c = "tunnelClose" ->
            <<Lock(DriverMu("command")), Unlock(DriverMu("command")),
              Lock(DriverMu("command")), Unlock(DriverMu("command"))>>

\* command.Driver.DataReceived: the bytes go to the stream under the lock,
\* then processPackets holds the lock (defer Unlock) around handlePacket.
StepsOfDataReceived(c, sessions) ==
    <<Lock(DriverMu("command")), Unlock(DriverMu("command")),
      Lock(DriverMu("command"))>>
    \o StepsOfHandlePacket(c, sessions)
    \o <<Unlock(DriverMu("command"))>>

\* Session.DataIncoming of the command session on a MSG that carries one
\* request: the session's lock from the first line to the return.
StepsOfDataIncoming(c, sessions) ==
    <<Lock(SessionMu("command"))>> \o StepsOfPoll("command")
    \o StepsOfDataReceived(c, sessions)
    \o <<Unlock(SessionMu("command")), Do("return", "")>>

\* Session.DataIncoming of an exec session on a MSG with data:
\* ExecDriver.DataReceived writes to the child's stdin.
StepsOfExecDataIncoming ==
    <<Lock(SessionMu("exec"))>> \o StepsOfPoll("exec")
    \o <<IO("stdin.Write"), Unlock(SessionMu("exec")), Do("return", "")>>

\* doSend: getNextActive under the Controller's lock, GetOutgoing of the
\* session it returned, then the write to the socket.
StepsOfDoSend(n) ==
    <<Lock(ControllerMu), Lock(SessionMu(n)), Unlock(SessionMu(n)),
      Unlock(ControllerMu), Lock(SessionMu(n))>>
    \o StepsOfPoll(n)
    \o <<Unlock(SessionMu(n)), IO("conn.Write"), Do("return", "")>>

\* One round of tunnelReader: the read of the connection, then the append
\* to outgoingData under the driver's lock.
StepsOfTunnelReader ==
    <<IO("Conn.Read"), Lock(DriverMu("command")), Do("append", ""),
      Unlock(DriverMu("command"))>>

Running(t)  == conc.prog[t] # <<>>
Current(t)  == Head(conc.prog[t])
Advance(t)  == [conc EXCEPT !.prog[t] = Tail(@)]

GoUnchanged ==
    UNCHANGED <<Settings, sess, exited, last, peer, toPeer, toClient,
                ctl, drv, cmd, hist, codec>>

\* main has registered the command session and Run has started.
GoInit ==
    /\ DoEncryption = FALSE
    /\ codec = Absent
    /\ PresharedSecret = ""
    /\ sess = New("console", "client", MaxInitialSeq, "c1")
    /\ exited = FALSE
    /\ last = Quiet(sess)
    /\ peer = New("console", "peer", 0, ServerKey)
    /\ toPeer = EmptyChannel
    /\ toClient = EmptyChannel
    /\ ctl = Absent
    /\ drv = Absent
    /\ cmd = Absent
    /\ hist = Absent
    /\ conc = [prog     |-> [t \in Goroutines |-> <<>>],
               held     |-> [l \in Locks |-> "none"],
               io       |-> [t \in Goroutines |-> ""],
               request  |-> "",
               sessions |-> <<"command">>,
               shutdown |-> {},
               closed   |-> {},
               closes   |-> [n \in SessionNames |-> 0],
               queued   |-> <<>>,
               tunnel   |-> FALSE,
               frames   |-> 0,
               reads    |-> 0]

\* The transport reads a frame for the command session that carries a
\* request, and calls DataIncoming.
ReceiveCommand ==
    /\ ~Running("transport")
    /\ conc.frames < MaxFrames
    /\ \E c \in Commands :
          conc' = [conc EXCEPT
                      !.prog["transport"] = StepsOfDataIncoming(c, conc.sessions),
                      !.request = c,
                      !.frames = @ + 1]
    /\ GoUnchanged

\* The transport reads a frame with data for the exec session.
ReceiveExecData ==
    /\ ~Running("transport")
    /\ conc.frames < MaxFrames
    /\ \E i \in 1..Len(conc.sessions) : conc.sessions[i] = "exec"
    /\ conc' = [conc EXCEPT !.prog["transport"] = StepsOfExecDataIncoming,
                            !.request = "data",
                            !.frames = @ + 1]
    /\ GoUnchanged

\* The transport sends: doSend for one of the sessions.
StartDoSend ==
    /\ ~Running("transport")
    /\ conc.frames < MaxFrames
    /\ \E i \in 1..Len(conc.sessions) :
          /\ conc.sessions[i] \notin conc.shutdown
          /\ conc' = [conc EXCEPT
                         !.prog["transport"] = StepsOfDoSend(conc.sessions[i]),
                         !.request = "doSend",
                         !.frames = @ + 1]
    /\ GoUnchanged

\* The tunnel reader goes round its loop.
TunnelRead ==
    /\ conc.tunnel
    /\ ~Running("reader")
    /\ conc.reads < MaxReads
    /\ conc' = [conc EXCEPT !.prog["reader"] = StepsOfTunnelReader,
                            !.reads = @ + 1]
    /\ GoUnchanged

\* mu.Lock(): returns once nobody holds the mutex.
Acquire ==
    /\ \E t \in Goroutines :
          /\ Running(t)
          /\ Current(t).op = "lock"
          /\ conc.held[Current(t).arg] = "none"
          /\ conc' = [Advance(t) EXCEPT !.held[Current(t).arg] = t]
    /\ GoUnchanged

\* mu.Unlock()
Release ==
    /\ \E t \in Goroutines :
          /\ Running(t)
          /\ Current(t).op = "unlock"
          /\ conc' = [Advance(t) EXCEPT !.held[Current(t).arg] = "none"]
    /\ GoUnchanged

\* A blocking I/O call begins.
BeginIO ==
    /\ \E t \in Goroutines :
          /\ Running(t)
          /\ Current(t).op = "io"
          /\ conc.io[t] = ""
          /\ conc' = [conc EXCEPT !.io[t] = Current(t).arg[1]]
    /\ GoUnchanged

\* A blocking I/O call returns.
EndIO ==
    /\ \E t \in Goroutines :
          /\ Running(t)
          /\ Current(t).op = "io"
          /\ conc.io[t] # ""
          /\ conc' = [Advance(t) EXCEPT !.io[t] = ""]
    /\ GoUnchanged

\* The assignments between the locks.
Assign ==
    /\ \E t \in Goroutines :
          /\ Running(t)
          /\ Current(t).op = "do"
          /\ LET what == Current(t).arg[1]
                 n    == Current(t).arg[2]
             IN  conc' =
                   CASE what = "Kill" ->
                          IF n \in conc.shutdown THEN Advance(t)
                          ELSE [conc EXCEPT
                                  !.prog[t] = StepsOfKill(n) \o Tail(@)]
                     [] what = "isShutdown" ->
                          [Advance(t) EXCEPT !.shutdown = @ \cup {n}]
                     [] what = "Close" ->
                          [Advance(t) EXCEPT !.closed = @ \cup {n},
                                             !.closes[n] = @ + 1]
                     [] what = "Destroy" ->
                          IF n \in conc.shutdown THEN Advance(t)
                          ELSE [conc EXCEPT
                                  !.prog[t] = StepsOfKill(n) \o Tail(@)]
                     [] what = "sessions = nil" ->
                          [Advance(t) EXCEPT !.sessions = <<>>]
                     [] what = "AddSession" ->
                          [Advance(t) EXCEPT
                              !.sessions =
                                 IF \E i \in 1..Len(@) : @[i] = n THEN @
                                 ELSE Append(@, n)]
                     [] what = "respond" ->
                          [Advance(t) EXCEPT !.queued = Append(@, n)]
                     [] what = "append" ->
                          [Advance(t) EXCEPT !.queued = Append(@, "tunnelData")]
                     [] what = "go tunnelReader" ->
                          [Advance(t) EXCEPT !.tunnel = TRUE]
                     [] what = "return" ->
                          [Advance(t) EXCEPT !.request = ""]
    /\ GoUnchanged

GoNext ==
    \/ ReceiveCommand
    \/ ReceiveExecData
    \/ StartDoSend
    \/ TunnelRead
    \/ Acquire
    \/ Release
    \/ BeginIO
    \/ EndIO
    \/ Assign

GoSpec == GoInit /\ [][GoNext]_vars


\* ------------------------------------------------------ a Driver on its own
\* The console, exec and command drivers share one GetOutgoing: nil when the
\* driver is shut down and has nothing buffered, the empty slice when
\* nothing is buffered, and otherwise the first maxLength bytes of the
\* buffer (all of it unless maxLength > 0), which leave the buffer.
DriverGetOutgoingMax(d, maxLength) ==
    IF d.isShutdown /\ Len(d.outgoingData) = 0
    THEN [d |-> d, data |-> <<>>, done |-> TRUE]
    ELSE LET sendLen == IF maxLength > 0 /\ Len(d.outgoingData) > maxLength
                        THEN maxLength ELSE Len(d.outgoingData)
         IN  [d |-> [d EXCEPT !.outgoingData =
                                  SubSeq(@, sendLen + 1, Len(@))],
              data |-> SubSeq(d.outgoingData, 1, sendLen),
              done |-> FALSE]

DriverKinds == {"console", "exec", "command"}

\* What GetOutgoing has returned so far: every byte, whether a call has
\* returned nil, and the result of the last call.
Polls(returned, done, result) ==
    [returned |-> returned, done |-> done, result |-> result]

DriverUnchanged ==
    UNCHANGED <<Settings, sess, exited, last, peer, toPeer, toClient,
                ctl, cmd, conc, codec>>

DriverInit ==
    /\ DoEncryption = FALSE
    /\ codec = Absent
    /\ PresharedSecret = ""
    /\ sess = New("console", "client", MaxInitialSeq, "c1")
    /\ exited = FALSE
    /\ last = Quiet(sess)
    /\ peer = New("console", "peer", 0, ServerKey)
    /\ toPeer = EmptyChannel
    /\ toClient = EmptyChannel
    /\ ctl = Absent
    /\ cmd = Absent
    /\ conc = Absent
    /\ \E kind \in DriverKinds : drv = NewDriver(kind, "client")
    /\ hist = Polls(<<>>, FALSE, "none")

\* The driver's goroutine buffers one more byte: readStdin, readOutput,
\* tunnelReader, or a response appended by processPackets.
DriverProduceStep ==
    /\ ~drv.readerDone
    /\ drv.produced < MaxStream
    /\ drv' = DriverProduce(drv)
    /\ hist' = [hist EXCEPT !.result = "none"]
    /\ DriverUnchanged

\* The input ends: EOF on stdin, the child has exited.
DriverFinishStep ==
    /\ ~drv.readerDone
    /\ drv' = DriverFinish(drv)
    /\ hist' = [hist EXCEPT !.result = "none"]
    /\ DriverUnchanged

\* Close, which Session.Kill calls once.
DriverCloseStep ==
    /\ drv.closed = 0
    /\ drv' = DriverClose(drv)
    /\ hist' = [hist EXCEPT !.result = "none"]
    /\ DriverUnchanged

\* GetOutgoing(maxLength): -1 as the session calls it, or a limit.
DriverGetOutgoingStep ==
    /\ \E maxLength \in {-1, 1} :
          LET r == DriverGetOutgoingMax(drv, maxLength)
          IN  /\ drv' = r.d
              /\ hist' = Polls(hist.returned \o r.data, hist.done \/ r.done,
                               IF r.done THEN "nil"
                               ELSE IF r.data = <<>> THEN "empty" ELSE "data")
    /\ DriverUnchanged

DriverNext ==
    \/ DriverProduceStep
    \/ DriverFinishStep
    \/ DriverCloseStep
    \/ DriverGetOutgoingStep

DriverSpec == DriverInit /\ [][DriverNext]_vars


\* ------------------------------------------------ the command byte stream
\* The command driver's input: the payload bytes of the session, in which
\* each command packet is a 4-byte big-endian length followed by that many
\* bytes: the packed request id (2 bytes, the top bit set in a response),
\* the command id (2 bytes) and the body.
MaxCmdFrames == 2     \* frames in the stream sent to the driver

CommandPing  == 0
CommandError == 65535

\* The command ids parsePacket has a case for.
KnownCommands == {0, 1, 2, 3, 4, 5, 6, 4096, 4097, 4098, 65535}

\* binary.BigEndian.Uint16 of two bytes.
Uint16(b1, b2) == (256 * b1) + b2

\* The body pointer a packet of this kind and direction carries: TUNNEL_DATA
\* and TUNNEL_CLOSE have no response body.
BodyOf(commandID, isRequest) ==
    IF ~isRequest /\ commandID \in {4097, 4098} THEN "nil"
    ELSE IF isRequest THEN "request" ELSE "response"

\* A command packet; nil is NoCommand. Body is the one body pointer that is
\* set, the fields are those of the bodies (a uint32 is its two 16-bit
\* halves), zero where the packet's body has no such field.
CommandPacket(requestID, commandID, isRequest, status) ==
    [RequestID |-> requestID, CommandID |-> commandID,
     IsRequest |-> isRequest, Status |-> status,
     Body |-> BodyOf(commandID, isRequest),
     Data |-> <<>>, Name |-> <<>>, Command |-> <<>>, Reason |-> <<>>,
     SessionID |-> 0, Port |-> 0,
     Delay |-> <<0, 0>>, Options |-> <<0, 0>>, TunnelID |-> <<0, 0>>]

NoCommand == CommandPacket(0, 0, FALSE, -1)

CreatePingResponse(requestID) ==
    CommandPacket(requestID, CommandPing, FALSE, 0)

CreateErrorResponse(requestID, status) ==
    CommandPacket(requestID, CommandError, FALSE, status)

\* binary.Read of a uint16 and of a uint32 from position pos, the error
\* ignored: the zero value, and the reader at its end, when too few bytes
\* remain.
ReadWord(data, pos) ==
    IF pos + 1 <= Len(data)
    THEN [value |-> Uint16(data[pos], data[pos + 1]), next |-> pos + 2]
    ELSE [value |-> 0, next |-> Len(data) + 1]

ReadLong(data, pos) ==
    IF pos + 3 <= Len(data)
    THEN [value |-> <<Uint16(data[pos], data[pos + 1]),
                      Uint16(data[pos + 2], data[pos + 3])>>,
          next |-> pos + 4]
    ELSE [value |-> <<0, 0>>, next |-> Len(data) + 1]

\* The command protocol's readNTString, the error ignored: the bytes before
\* the first NUL, or all that remain.
ReadString(data, pos) ==
    LET nuls == {i \in pos..Len(data) : data[i] = 0}
    IN  IF nuls = {}
        THEN [value |-> SubSeq(data, pos, Len(data)), next |-> Len(data) + 1]
        ELSE LET z == CHOOSE i \in nuls : \A j \in nuls : i <= j
             IN  [value |-> SubSeq(data, pos, z - 1), next |-> z + 1]

\* data := make([]byte, buf.Len()); buf.Read(data)
ReadRest(data, pos) == SubSeq(data, pos, Len(data))

\* The switch of parsePacket: the body of a packet whose header is p, read
\* from the fifth byte on.
parseBody(p, data) ==
    LET str  == ReadString(data, 5)
        word == ReadWord(data, 5)
        long == ReadLong(data, 5)
    IN  CASE p.CommandID = 0 -> [p EXCEPT !.Data = str.value]
          [] p.CommandID = 1 ->
               IF p.IsRequest THEN [p EXCEPT !.Name = str.value]
               ELSE [p EXCEPT !.SessionID = word.value]
          [] p.CommandID = 2 ->
               IF p.IsRequest
               THEN [p EXCEPT !.Name = str.value,
                              !.Command = ReadString(data, str.next).value]
               ELSE [p EXCEPT !.SessionID = word.value]
          [] p.CommandID = 3 ->
               IF p.IsRequest THEN [p EXCEPT !.Name = str.value]
               ELSE [p EXCEPT !.Data = ReadRest(data, 5)]
          [] p.CommandID = 4 ->
               IF p.IsRequest
               THEN [p EXCEPT !.Name = str.value,
                              !.Data = ReadRest(data, str.next)]
               ELSE p
          [] p.CommandID = 5 -> p
          [] p.CommandID = 6 ->
               IF p.IsRequest THEN [p EXCEPT !.Delay = long.value] ELSE p
          [] p.CommandID = 4096 ->
               IF p.IsRequest
               THEN LET host == ReadString(data, long.next)
                    IN  [p EXCEPT !.Options = long.value,
                                  !.Name = host.value,
                                  !.Port = ReadWord(data, host.next).value]
               ELSE [p EXCEPT !.TunnelID = long.value]
          [] p.CommandID = 4097 ->
               IF p.IsRequest
               THEN [p EXCEPT !.TunnelID = long.value,
                              !.Data = ReadRest(data, long.next)]
               ELSE p
          [] p.CommandID = 4098 ->
               IF p.IsRequest
               THEN [p EXCEPT !.TunnelID = long.value,
                              !.Reason = ReadString(data, long.next).value]
               ELSE p
          [] p.CommandID = CommandError ->
               [p EXCEPT !.Status = word.value,
                         !.Reason = ReadString(data, word.next).value]

\* parsePacket: fewer than 4 bytes and an unknown command id are errors.
parsePacket(data) ==
    IF Len(data) < 4 THEN [pkt |-> NoCommand, err |-> TRUE]
    ELSE LET packedID == Uint16(data[1], data[2])
             cmdID    == Uint16(data[3], data[4])
         IN  IF cmdID \in KnownCommands
             THEN [pkt |-> parseBody(CommandPacket(packedID % 32768, cmdID,
                                                   packedID < 32768, 0),
                                     data),
                   err |-> FALSE]
             ELSE [pkt |-> NoCommand, err |-> TRUE]

\* ReadPacket. The length is a uint32 kept as its two 16-bit halves; the
\* buffer is far shorter than 65536 bytes. rest is the buffer afterwards.
ReadPacket(buf) ==
    IF Len(buf) < 4 THEN [pkt |-> NoCommand, err |-> FALSE, rest |-> buf]
    ELSE LET hi == Uint16(buf[1], buf[2])
             lo == Uint16(buf[3], buf[4])
         IN  IF hi = 65535 /\ lo + 4 >= 65536
             THEN [pkt |-> NoCommand, err |-> TRUE, rest |-> buf]
             ELSE IF hi > 0 \/ Len(buf) < lo + 4
             THEN [pkt |-> NoCommand, err |-> FALSE, rest |-> buf]
             ELSE LET p == parsePacket(SubSeq(buf, 5, 4 + lo))
                  IN  [pkt |-> p.pkt, err |-> p.err,
                       rest |-> SubSeq(buf, 5 + lo, Len(buf))]

\* handlePacket: the ping handler answers a request; the error handler
\* prints; the other handlers act on files, processes and tunnels, which are
\* outside this stream, and answer a request with a packet of their kind;
\* the default branch answers 'not implemented'.
handlePacket(pkt) ==
    IF pkt.CommandID = CommandError THEN NoCommand
    ELSE IF pkt.CommandID \in KnownCommands
    THEN IF pkt.IsRequest
         THEN CommandPacket(pkt.RequestID, pkt.CommandID, FALSE, 0)
         ELSE NoCommand
    ELSE CreateErrorResponse(pkt.RequestID, 65535)

\* processPackets: the loop over ReadPacket, which returns on an error and
\* on an incomplete packet.
RECURSIVE processPackets(_)
processPackets(d) ==
    LET r == ReadPacket(d.stream)
    IN  IF r.err THEN [d EXCEPT !.stream = r.rest, !.errors = @ + 1]
        ELSE IF r.pkt = NoCommand THEN d
        ELSE LET out == handlePacket(r.pkt)
                 d1  == [d EXCEPT !.stream = r.rest,
                                  !.decoded = Append(@, r.pkt)]
             IN  processPackets(
                     IF out = NoCommand THEN d1
                     ELSE [d1 EXCEPT !.outgoingData = Append(@, out)])

\* command.NewDriver, with the packets decoded, the errors, and the responses
\* GetOutgoing has handed to the session so far.
NewCommandDriver ==
    [stream |-> <<>>, outgoingData |-> <<>>, decoded |-> <<>>, errors |-> 0,
     sent |-> <<>>]

\* command.Driver.DataReceived
DataReceived(d, data) == processPackets([d EXCEPT !.stream = @ \o data])

\* The frames the server may send, as bytes: a ping request, a ping
\* response, a packet with a command id that does not exist, a packet of two
\* bytes, and a length of 0xFFFFFFFF.
FrameBytes(kind, requestID) ==
    CASE kind = "ping"     -> <<0, 0, 0, 4, 0, requestID, 0, 0>>
      [] kind = "pong"     -> <<0, 0, 0, 4, 128, requestID, 0, 0>>
      [] kind = "unknown"  -> <<0, 0, 0, 4, 0, requestID, 0, 7>>
      [] kind = "short"    -> <<0, 0, 0, 2, 0, requestID>>
      [] kind = "overflow" -> <<255, 255, 255, 255>>

FrameKinds == {"ping", "pong", "unknown", "short", "overflow"}

\* A stream of n frames; the k-th has request id k.
RECURSIVE StreamBytes(_, _)
StreamBytes(kinds, k) ==
    IF k > Len(kinds) THEN <<>>
    ELSE FrameBytes(kinds[k], k) \o StreamBytes(kinds, k + 1)

CmdUnchanged ==
    UNCHANGED <<Settings, sess, exited, last, peer, toPeer, toClient,
                ctl, drv, conc, codec>>

\* hist.kinds is the stream the server sends, hist.pending the bytes of it
\* that have not arrived yet.
CmdInit ==
    /\ DoEncryption = FALSE
    /\ codec = Absent
    /\ PresharedSecret = ""
    /\ sess = New("console", "client", MaxInitialSeq, "c1")
    /\ exited = FALSE
    /\ last = Quiet(sess)
    /\ peer = New("console", "peer", 0, ServerKey)
    /\ toPeer = EmptyChannel
    /\ toClient = EmptyChannel
    /\ ctl = Absent
    /\ drv = Absent
    /\ conc = Absent
    /\ cmd = NewCommandDriver
    /\ \E n \in 1..MaxCmdFrames : \E kinds \in [1..n -> FrameKinds] :
          hist = [kinds |-> kinds, pending |-> StreamBytes(kinds, 1)]

\* A MSG brings the next bytes of the stream, however many, and handleMSG
\* calls DataReceived.
CmdDataReceived ==
    /\ \E n \in 1..Len(hist.pending) :
          /\ cmd' = DataReceived(cmd, SubSeq(hist.pending, 1, n))
          /\ hist' = [hist EXCEPT !.pending = SubSeq(@, n + 1, Len(@))]
    /\ CmdUnchanged

\* The session polls: GetOutgoing(-1) takes what is queued.
CmdGetOutgoing ==
    /\ cmd.outgoingData # <<>>
    /\ cmd' = [cmd EXCEPT !.outgoingData = <<>>, !.sent = @ \o cmd.outgoingData]
    /\ UNCHANGED hist
    /\ CmdUnchanged

CmdNext ==
    \/ CmdDataReceived
    \/ CmdGetOutgoing

CmdSpec == CmdInit /\ [][CmdNext]_vars

\* ---------------------------------------------------------- the Packet Codec
\* protocol.Parse and Packet.ToBytes over the bytes of a frame.  A byte is a
\* number in 0..255, a string or a []byte a sequence of bytes, a uint16 two
\* bytes, most significant first.
PacketTypeSYN  == 0
PacketTypeMSG  == 1
PacketTypeFIN  == 2
PacketTypeENC  == 3
PacketTypePING == 255
MaxPacketSize  == 1024
PublicKeyLength     == 64
AuthenticatorLength == 32

\* binary.Write(buf, binary.BigEndian, v) of a uint16.
PutUint16LittleEndian(v) == <<v % 256, v \div 256>>

PutUint16(v) == <<v \div 256, v % 256>>

\* binary.Read of a uint16 at position pos: an error unless two bytes remain.
HasUint16(data, pos) == pos + 1 <= Len(data)
GetUint16(data, pos) == Uint16(data[pos], data[pos + 1])

\* writeNTString: the bytes of the string and a NUL.
writeNTStringBare(s) == s

writeNTString(s) == s \o <<0>>

\* readNTString: the bytes before the first NUL at or after pos; an error
\* (ReadByte's io.EOF) when there is none.
readNTString(data, pos) ==
    LET nuls == {i \in pos..Len(data) : data[i] = 0}
    IN  IF nuls = {}
        THEN [ok |-> FALSE, value |-> <<>>, next |-> pos]
        ELSE LET z == CHOOSE i \in nuls : \A j \in nuls : i <= j
             IN  [ok |-> TRUE, value |-> SubSeq(data, pos, z - 1), next |-> z + 1]

\* bytes.Reader.Read into an array of n zero bytes, from position pos: it
\* copies the bytes that remain, n at most, and errs when none remains.
ReadArray(data, pos, n) ==
    [i \in 1..n |-> IF pos + i - 1 <= Len(data) THEN data[pos + i - 1] ELSE 0]

Zeros(n) == [i \in 1..n |-> 0]

\* protocol.Packet with its five body pointers: body names the one that is
\* set ("nil": none), the fields of the others are the zero value.
CodecPacket(packetID, packetType, sessionID) ==
    [PacketID |-> packetID, PacketType |-> packetType, SessionID |-> sessionID,
     body |-> "nil",
     Seq |-> 0, Options |-> 0, Name |-> <<>>, Ack |-> 0, Data |-> <<>>,
     Reason |-> <<>>, PingData |-> <<>>,
     Subtype |-> 0, Flags |-> 0,
     PublicKey |-> Zeros(PublicKeyLength),
     Authenticator |-> Zeros(AuthenticatorLength)]

\* Bit 0 of the options: syn.Options&OptName != 0.
HasOptName(options) == options % (2 * OptName) >= OptName

\* Packet.ToBytes: the five header bytes, then the body of the frame's type;
\* an error when that body is nil or the type is not one of the five.
ToBytes(p) ==
    LET header == PutUint16(p.PacketID) \o <<p.PacketType>>
                    \o PutUint16(p.SessionID)
        Bytes(b) == [ok |-> TRUE, bytes |-> header \o b]
        Error    == [ok |-> FALSE, bytes |-> <<>>]
    IN  CASE p.PacketType = PacketTypeSYN ->
               IF p.body # "SYN" THEN Error
               ELSE Bytes(PutUint16(p.Seq) \o PutUint16(p.Options)
                          \o (IF HasOptName(p.Options)
                              THEN writeNTString(p.Name) ELSE <<>>))
          [] p.PacketType = PacketTypeMSG ->
               IF p.body # "MSG" THEN Error
               ELSE Bytes(PutUint16(p.Seq) \o PutUint16(p.Ack) \o p.Data)
          [] p.PacketType = PacketTypeFIN ->
               IF p.body # "FIN" THEN Error
               ELSE Bytes(writeNTString(p.Reason))
          [] p.PacketType = PacketTypePING ->
               IF p.body # "PING" THEN Error
               ELSE Bytes(writeNTString(p.PingData))
          [] p.PacketType = PacketTypeENC ->
               IF p.body # "ENC" THEN Error
               ELSE Bytes(PutUint16(p.Subtype) \o PutUint16(p.Flags)
                          \o (CASE p.Subtype = EncSubtypeInit -> p.PublicKey
                                [] p.Subtype = EncSubtypeAuth -> p.Authenticator
                                [] OTHER -> <<>>))
          [] OTHER -> Error

\* protocol.Parse.
Parse(data) ==
    LET Error == [ok |-> FALSE, pkt |-> CodecPacket(0, 0, 0)]
        Got(p) == [ok |-> TRUE, pkt |-> p]
    IN  IF Len(data) < 5 \/ Len(data) > MaxPacketSize THEN Error
        ELSE
        LET p == CodecPacket(GetUint16(data, 1), data[3], GetUint16(data, 4))
            TwoWords == HasUint16(data, 6) /\ HasUint16(data, 8)
        IN  CASE p.PacketType = PacketTypeSYN ->
                   IF ~TwoWords THEN Error
                   ELSE LET options == GetUint16(data, 8)
                            name    == readNTString(data, 10)
                            syn     == [p EXCEPT !.body = "SYN",
                                                 !.Seq = GetUint16(data, 6),
                                                 !.Options = options]
                        IN  IF ~HasOptName(options) THEN Got(syn)
                            ELSE IF ~name.ok THEN Error
                            ELSE Got([syn EXCEPT !.Name = name.value])
              [] p.PacketType = PacketTypeMSG ->
                   IF ~TwoWords THEN Error
                   ELSE Got([p EXCEPT !.body = "MSG",
                                      !.Seq = GetUint16(data, 6),
                                      !.Ack = GetUint16(data, 8),
                                      !.Data = SubSeq(data, 10, Len(data))])
              [] p.PacketType = PacketTypeFIN ->
                   LET reason == readNTString(data, 6)
                   IN  IF ~reason.ok THEN Error
                       ELSE Got([p EXCEPT !.body = "FIN",
                                          !.Reason = reason.value])
              [] p.PacketType = PacketTypePING ->
                   LET d == readNTString(data, 6)
                   IN  IF ~d.ok THEN Error
                       ELSE Got([p EXCEPT !.body = "PING",
                                          !.PingData = d.value])
              [] p.PacketType = PacketTypeENC ->
                   IF ~TwoWords THEN Error
                   ELSE LET enc == [p EXCEPT !.body = "ENC",
                                             !.Subtype = GetUint16(data, 6),
                                             !.Flags = GetUint16(data, 8)]
                        IN  CASE enc.Subtype = EncSubtypeInit ->
                                   IF Len(data) < 10 THEN Error
                                   ELSE Got([enc EXCEPT !.PublicKey =
                                          ReadArray(data, 10, PublicKeyLength)])
                              [] enc.Subtype = EncSubtypeAuth ->
                                   IF Len(data) < 10 THEN Error
                                   ELSE Got([enc EXCEPT !.Authenticator =
                                          ReadArray(data, 10, AuthenticatorLength)])
                              [] OTHER -> Got(enc)
              [] OTHER -> Error

\* SetName, SetIsCommand, SetEncInit, SetEncAuth on the frames Create* make.
SetName(p, name) ==
    IF p.body = "SYN"
    THEN [p EXCEPT !.Options = IF HasOptName(@) THEN @ ELSE @ + OptName,
                   !.Name = name]
    ELSE p

SetIsCommand(p) ==
    IF p.body = "SYN" /\ p.Options % (2 * OptCommand) < OptCommand
    THEN [p EXCEPT !.Options = @ + OptCommand]
    ELSE p

SetEncInit(p, publicKey) ==
    IF p.body = "ENC"
    THEN [p EXCEPT !.Subtype = EncSubtypeInit, !.PublicKey = publicKey]
    ELSE p

SetEncAuth(p, authenticator) ==
    IF p.body = "ENC"
    THEN [p EXCEPT !.Subtype = EncSubtypeAuth, !.Authenticator = authenticator]
    ELSE p

\* The values the frames are made of: the ends and the middle of uint16, a
\* byte string without NUL (a Go string handed to writeNTString is a name,
\* a reason or ping text), payload with any byte in it, 64 and 32 bytes.
CodecWords   == {0, 258, 65534}
CodecStrings == {<<>>, <<65>>, <<255, 1>>}
CodecData    == {<<>>, <<0>>, <<7, 0, 255>>}
CodecKeys    == {[i \in 1..PublicKeyLength |-> i], Zeros(PublicKeyLength)}
CodecAuths   == {[i \in 1..AuthenticatorLength |-> 255 - i]}

\* The frames the Create* functions and the setters make.
CodecFrames ==
    LET Made(type, body) ==
            {[CodecPacket(id, type, sid) EXCEPT !.body = body] :
                 id \in CodecWords, sid \in {0, 65535}}
        syn == {[p EXCEPT !.Seq = seq] :
                    p \in Made(PacketTypeSYN, "SYN"), seq \in {1, 65535}}
        enc == {[p EXCEPT !.Flags = 0] : p \in Made(PacketTypeENC, "ENC")}
    IN  syn
        \cup {SetIsCommand(p) : p \in syn}
        \cup {SetName(p, name) : p \in syn, name \in CodecStrings}
        \cup {SetIsCommand(SetName(p, name)) : p \in syn, name \in CodecStrings}
        \cup {[p EXCEPT !.Seq = seq, !.Ack = 65535 - seq, !.Data = data] :
                  p \in Made(PacketTypeMSG, "MSG"), seq \in {0, 513},
                  data \in CodecData}
        \cup {[p EXCEPT !.Reason = r] :
                  p \in Made(PacketTypeFIN, "FIN"), r \in CodecStrings}
        \cup {[p EXCEPT !.PingData = d] :
                  p \in Made(PacketTypePING, "PING"), d \in CodecStrings}
        \cup enc
        \cup {SetEncInit(p, k) : p \in enc, k \in CodecKeys}
        \cup {SetEncAuth(p, a) : p \in enc, a \in CodecAuths}

\* A Packet whose type's body pointer is nil, or whose type is none.
BodilessFrames ==
    {CodecPacket(id, type, 1) :
         id \in CodecWords,
         type \in {PacketTypeSYN, PacketTypeMSG, PacketTypeFIN,
                   PacketTypeENC, PacketTypePING, 4}}

CodecUnchanged ==
    UNCHANGED <<Settings, sess, exited, last, peer, toPeer, toClient,
                ctl, drv, cmd, conc, hist>>

CodecInit ==
    /\ DoEncryption = FALSE
    /\ PresharedSecret = ""
    /\ sess = New("console", "client", MaxInitialSeq, "c1")
    /\ exited = FALSE
    /\ last = Quiet(sess)
    /\ peer = New("console", "peer", 0, ServerKey)
    /\ toPeer = EmptyChannel
    /\ toClient = EmptyChannel
    /\ ctl = Absent
    /\ drv = Absent
    /\ cmd = Absent
    /\ conc = Absent
    /\ hist = Absent
    /\ \E p \in CodecFrames \cup BodilessFrames :
          codec = [frame |-> p, stage |-> "made", ok |-> TRUE,
                   bytes |-> <<>>, parsed |-> CodecPacket(0, 0, 0)]

\* The sending end serialises the frame.
CodecToBytes ==
    /\ codec.stage = "made"
    /\ LET r == ToBytes(codec.frame)
       IN  codec' = [codec EXCEPT !.stage = "written", !.ok = r.ok,
                                  !.bytes = r.bytes]
    /\ CodecUnchanged

\* The receiving end parses the bytes it was sent.
CodecParse ==
    /\ codec.stage = "written"
    /\ codec.ok
    /\ LET r == Parse(codec.bytes)
       IN  codec' = [codec EXCEPT !.stage = "parsed", !.ok = r.ok,
                                  !.parsed = r.pkt]
    /\ CodecUnchanged

CodecNext ==
    \/ CodecToBytes
    \/ CodecParse

CodecSpec == CodecInit /\ [][CodecNext]_vars

\* ------------------------------------------------- the command packet codec
\* command.Packet.ToBytes, and the packets the two ends make.
MaxTunnelRequests == 2   \* requests the driver itself sends in a run

PutUint32(v) == PutUint16(v[1]) \o PutUint16(v[2])

\* Packet.ToBytes of the command protocol: the packed request id, the
\* command id, the body that matches the direction, if it is set, and the
\* length of all that in front.
CommandToBytes(p) ==
    LET packedID == (p.RequestID % 32768) + (IF p.IsRequest THEN 0 ELSE 32768)
        request  == p.IsRequest /\ p.Body = "request"
        response == ~p.IsRequest /\ p.Body = "response"
        body ==
          CASE p.CommandID = 0 ->
                 IF request \/ response THEN writeNTString(p.Data) ELSE <<>>
            [] p.CommandID = 1 ->
                 IF request THEN writeNTString(p.Name)
                 ELSE IF response THEN PutUint16(p.SessionID) ELSE <<>>
            [] p.CommandID = 2 ->
                 IF request
                 THEN writeNTString(p.Name) \o writeNTString(p.Command)
                 ELSE IF response THEN PutUint16(p.SessionID) ELSE <<>>
            [] p.CommandID = 3 ->
                 IF request THEN writeNTString(p.Name)
                 ELSE IF response THEN p.Data ELSE <<>>
            [] p.CommandID = 4 ->
                 IF request THEN writeNTString(p.Name) \o p.Data ELSE <<>>
            [] p.CommandID = 5 -> <<>>
            [] p.CommandID = 6 ->
                 IF request THEN PutUint32(p.Delay) ELSE <<>>
            [] p.CommandID = 4096 ->
                 IF request
                 THEN PutUint32(p.Options) \o writeNTString(p.Name)
                        \o PutUint16(p.Port)
                 ELSE IF response THEN PutUint32(p.TunnelID) ELSE <<>>
            [] p.CommandID = 4097 ->
                 IF request THEN PutUint32(p.TunnelID) \o p.Data ELSE <<>>
            [] p.CommandID = 4098 ->
                 IF request
                 THEN PutUint32(p.TunnelID) \o writeNTString(p.Reason)
                 ELSE <<>>
            [] p.CommandID = CommandError ->
                 IF request \/ response
                 THEN PutUint16(p.Status) \o writeNTString(p.Reason)
                 ELSE <<>>
            [] OTHER -> <<>>
        data == PutUint16(packedID) \o PutUint16(p.CommandID) \o body
    IN  PutUint32(<<0, Len(data)>>) \o data

\* Driver.nextRequestID: uint16(atomic.AddUint32(&d.requestID, 1)).
nextRequestID(requestID) == (requestID + 1) % 65536

CreateTunnelDataRequest(requestID, tunnelID, data) ==
    [CommandPacket(requestID, 4097, TRUE, 0) EXCEPT
        !.TunnelID = tunnelID, !.Data = data]

CreateTunnelCloseRequest(requestID, tunnelID, reason) ==
    [CommandPacket(requestID, 4098, TRUE, 0) EXCEPT
        !.TunnelID = tunnelID, !.Reason = reason]

\* The values in the bodies: uint32 as two halves, strings without NUL.
CodecLongs == {<<0, 0>>, <<1, 2>>, <<65535, 65535>>}

\* The responses the Create*Response functions make to request requestID.
CommandResponses(requestID) ==
    LET R(commandID) == CommandPacket(requestID, commandID, FALSE, 0)
    IN  {[R(0) EXCEPT !.Data = d] : d \in CodecStrings}
        \cup {[R(c) EXCEPT !.SessionID = s] : c \in {1, 2}, s \in CodecWords}
        \cup {[R(3) EXCEPT !.Data = d] : d \in CodecData}
        \cup {R(4), R(5), R(6)}
        \cup {[R(4096) EXCEPT !.TunnelID = t] : t \in CodecLongs}
        \cup {[R(CommandError) EXCEPT !.Status = s, !.Reason = r] :
                  s \in {32768, 65535}, r \in CodecStrings}

\* The requests the server's own encoder sends, with a 15-bit request id.
CommandRequests(requestID) ==
    LET Q(commandID) == CommandPacket(requestID, commandID, TRUE, 0)
    IN  {[Q(0) EXCEPT !.Data = d] : d \in CodecStrings}
        \cup {[Q(c) EXCEPT !.Name = n] : c \in {1, 3}, n \in CodecStrings}
        \cup {[Q(2) EXCEPT !.Name = n, !.Command = <<47, 98>>] :
                  n \in CodecStrings}
        \cup {[Q(4) EXCEPT !.Name = <<102>>, !.Data = d] : d \in CodecData}
        \cup {Q(5)}
        \cup {[Q(6) EXCEPT !.Delay = v] : v \in CodecLongs}
        \cup {[Q(4096) EXCEPT !.Options = <<0, 0>>, !.Name = n, !.Port = 443] :
                  n \in CodecStrings}
        \cup {[Q(CommandError) EXCEPT !.Status = 1, !.Reason = r] :
                  r \in CodecStrings}

CmdCodecUnchanged ==
    UNCHANGED <<Settings, sess, exited, last, peer, toPeer, toClient,
                ctl, drv, cmd, conc, hist>>

\* A driver that has sent no request of its own yet, and one that has sent
\* 32767 of them.
CmdCodecInit ==
    /\ DoEncryption = FALSE
    /\ PresharedSecret = ""
    /\ sess = New("console", "client", MaxInitialSeq, "c1")
    /\ exited = FALSE
    /\ last = Quiet(sess)
    /\ peer = New("console", "peer", 0, ServerKey)
    /\ toPeer = EmptyChannel
    /\ toClient = EmptyChannel
    /\ ctl = Absent
    /\ drv = Absent
    /\ cmd = Absent
    /\ conc = Absent
    /\ hist = Absent
    /\ \E n \in {0, 32767} :
          codec = [requestID |-> n, made |-> 0, stage |-> "idle",
                   frame |-> NoCommand, bytes |-> <<>>,
                   err |-> FALSE, parsed |-> NoCommand]

Made(p) == [codec EXCEPT !.stage = "made", !.frame = p, !.bytes = <<>>,
                         !.err = FALSE, !.parsed = NoCommand]

\* tunnelReader has read bytes from a tunnel's socket.
TunnelDataRequest ==
    /\ codec.stage = "idle"
    /\ codec.made < MaxTunnelRequests
    /\ \E t \in CodecLongs, d \in CodecData \ {<<>>} :
          LET id == nextRequestID(codec.requestID)
          IN  codec' = [Made(CreateTunnelDataRequest(id, t, d)) EXCEPT
                           !.requestID = id, !.made = @ + 1]
    /\ CmdCodecUnchanged

\* closeTunnel
TunnelCloseRequest ==
    /\ codec.stage = "idle"
    /\ codec.made < MaxTunnelRequests
    /\ \E t \in CodecLongs, r \in CodecStrings :
          LET id == nextRequestID(codec.requestID)
          IN  codec' = [Made(CreateTunnelCloseRequest(id, t, r)) EXCEPT
                           !.requestID = id, !.made = @ + 1]
    /\ CmdCodecUnchanged

\* A handler answers the server's request.
CommandResponse ==
    /\ codec.stage = "idle"
    /\ \E id \in {0, 32767} : \E p \in CommandResponses(id) : codec' = Made(p)
    /\ CmdCodecUnchanged

\* The server makes a request.
CommandRequest ==
    /\ codec.stage = "idle"
    /\ \E id \in {1, 32767} : \E p \in CommandRequests(id) : codec' = Made(p)
    /\ CmdCodecUnchanged

CmdCodecToBytes ==
    /\ codec.stage = "made"
    /\ codec' = [codec EXCEPT !.stage = "written",
                              !.bytes = CommandToBytes(codec.frame)]
    /\ CmdCodecUnchanged

CmdCodecReadPacket ==
    /\ codec.stage = "written"
    /\ LET r == ReadPacket(codec.bytes)
       IN  codec' = [codec EXCEPT !.stage = "parsed", !.err = r.err,
                                  !.parsed = r.pkt, !.bytes = r.rest]
    /\ CmdCodecUnchanged

\* The next packet.
CmdCodecDone ==
    /\ codec.stage = "parsed"
    /\ codec' = [codec EXCEPT !.stage = "idle", !.frame = NoCommand,
                              !.bytes = <<>>, !.err = FALSE,
                              !.parsed = NoCommand]
    /\ CmdCodecUnchanged

CmdCodecNext ==
    \/ TunnelDataRequest
    \/ TunnelCloseRequest
    \/ CommandResponse
    \/ CommandRequest
    \/ CmdCodecToBytes
    \/ CmdCodecReadPacket
    \/ CmdCodecDone

CmdCodecSpec == CmdCodecInit /\ [][CmdCodecNext]_vars

\* ------------------------------------------------------------ a silent peer
\* The transport loop when nothing valid comes back: every read of the socket
\* times out, and Run calls Heartbeat and then doSend.
MaxSilentFrames == 3   \* frames sent in a run under an infinite ceiling

\* A length the transport reports that leaves room for the encryption
\* header and for one byte of data in a MSG frame.
SilentMaxLength == EncryptOverhead + MSGSize + 1

\* The sessions such a run can start from: a new one; one that is Established
\* over an encrypted channel with an engine 0xFFF0 frames old, or 0xFFF1
\* frames old (the peer answered every frame up to the last one, so no
\* transmission is missed yet); and, under the infinite ceiling, one that
\* has retransmitted its first encrypted frame (the SYN, or the ENC auth
\* frame with a pre-shared secret) 65534 times.
SilentSessions(ceiling) ==
    LET new  == New("console", "client", MaxInitialSeq, "c1")
        keys == SetTheirPublicKey(new.Encryptor, ServerKey)
    IN  {new}
        \cup (IF DoEncryption
              THEN {[new EXCEPT !.State = StateEstablished,
                                !.Encryptor = [keys EXCEPT !.nonce = n]] :
                       n \in {RenegotiateAfter, RenegotiateAfter + 1}}
              ELSE {})
        \cup (IF DoEncryption /\ ceiling < 0
              THEN {[new EXCEPT !.State = AfterKeyInit,
                                !.Encryptor = [keys EXCEPT !.nonce = SeqMod - 2],
                                !.MissedTransmissions = SeqMod - 1]}
              ELSE {})

SilentUnchanged ==
    UNCHANGED <<Settings, sess, last, peer, toPeer, toClient, drv, cmd, conc,
                codec>>

SilentInit ==
    /\ DoEncryption \in BOOLEAN
    /\ PresharedSecret \in Secrets
    /\ sess = New("console", "client", MaxInitialSeq, "c1")
    /\ exited = FALSE
    /\ last = Quiet(sess)
    /\ peer = New("console", "peer", 0, ServerKey)
    /\ toPeer = EmptyChannel
    /\ toClient = EmptyChannel
    /\ \E ceiling \in {-1, MaxRetransmits} : \E s \in SilentSessions(ceiling) :
          ctl = [sessions |-> <<s>>, currentIndex |-> 0,
                 MaxRetransmits |-> ceiling]
    /\ drv = Absent
    /\ cmd = Absent
    /\ conc = Absent
    /\ codec = Absent
    /\ hist = [sent |-> 0, frame |-> NoFrame]

\* Run, on a receive timeout: controller.Heartbeat(), then d.doSend(), which
\* ends the process when no session is active.
SilentTimeout ==
    /\ ~exited
    /\ ctl.MaxRetransmits >= 0 \/ hist.sent < MaxSilentFrames
    /\ LET r == RegistryGetOutgoing(RegistryKillIgnoredSessions(ctl),
                                    SilentMaxLength, "c2")
       IN  /\ ctl' = r.c
           /\ exited' = (r.exit \/ ~r.active)
           /\ hist' = [sent  |-> hist.sent + (IF r.out = NoFrame THEN 0 ELSE 1),
                       frame |-> r.out]
    /\ SilentUnchanged

\* Time passes: more than the packet delay.
SilentTick ==
    /\ ~exited
    /\ ctl.sessions[1].sinceLastTransmit <= PacketDelay
    /\ ctl' = [ctl EXCEPT !.sessions[1].sinceLastTransmit = PacketDelay + 1]
    /\ hist' = [hist EXCEPT !.frame = NoFrame]
    /\ UNCHANGED exited
    /\ SilentUnchanged

\* The application writes a byte.
SilentProduce ==
    /\ ~exited
    /\ ctl.sessions[1].Driver.produced < MaxStream
    /\ ctl' = [ctl EXCEPT !.sessions[1].Driver = DriverProduce(@)]
    /\ hist' = [hist EXCEPT !.frame = NoFrame]
    /\ UNCHANGED exited
    /\ SilentUnchanged

SilentNext ==
    \/ SilentTimeout
    \/ SilentTick
    \/ SilentProduce

SilentSpec == SilentInit /\ [][SilentNext]_vars

\* The socket's read deadline is 50 ms: the timeout branch of Run is taken
\* again and again, and time passes.
SilentFairness == WF_vars(SilentTimeout) /\ WF_vars(SilentTick)

FairSilentSpec == SilentSpec /\ SilentFairness

\* ----------------------------------------------------------- a large buffer
\* The two Established ends of NetInit, the client's application writing a
\* burst (the output of a command, a downloaded file) that the session
\* appends to OutgoingBuffer whole. hist counts the bytes of the client's
\* stream: sent, the length of the prefix of the stream that has gone out in
\* MSG frames so far; retired, the number taken off the outgoing buffer.
BulkLength == 65536   \* bytes the client's application writes in one burst
MaxBulkFrames == 4    \* frames the client's transport sends in a run

\* The application has written BulkLength bytes since the last poll.
DriverProduceBulk(d) ==
    [d EXCEPT !.outgoingData =
                 @ \o [k \in 1..BulkLength |-> AppByte(d.side, d.produced + k)],
              !.produced = @ + BulkLength]

BulkUnchanged == UNCHANGED <<Settings, last, ctl, drv, cmd, conc, codec>>

BulkInit ==
    /\ DoEncryption = FALSE
    /\ PresharedSecret = ""
    /\ sess = [New("console", "client", MaxInitialSeq, "c1") EXCEPT
                 !.State = StateEstablished, !.TheirSeq = PeerInitialSeq]
    /\ peer = [New("console", "peer", PeerInitialSeq, ServerKey) EXCEPT
                 !.State = StateEstablished, !.TheirSeq = MaxInitialSeq]
    /\ exited = FALSE
    /\ last = Quiet(sess)
    /\ toPeer = EmptyChannel
    /\ toClient = EmptyChannel
    /\ ctl = Absent
    /\ drv = Absent
    /\ cmd = Absent
    /\ conc = Absent
    /\ codec = Absent
    /\ hist = [sent |-> 0, retired |-> 0, frames |-> 0]

\* The transport asks the client's session for a frame and sends it.
BulkClientSend ==
    /\ ~exited
    /\ hist.frames < MaxBulkFrames
    /\ LET r == GetOutgoing(sess, NetMaxLength, "c2")
           n == IF r.out # NoFrame /\ r.out.pkt.PacketType = "MSG"
                THEN hist.retired + Len(r.out.pkt.Data) ELSE 0
       IN  /\ sess' = Uncounted(r.s)
           /\ exited' = r.exit
           /\ toPeer' = Put(toPeer, r.out)
           /\ hist' = [hist EXCEPT !.sent = IF n > @ THEN n ELSE @,
                                    !.frames = IF r.out # NoFrame THEN @ + 1 ELSE @]
    /\ UNCHANGED <<peer, toClient>>
    /\ BulkUnchanged

BulkPeerSend ==
    /\ ~exited
    /\ LET r == GetOutgoing(peer, NetMaxLength, "s2")
       IN  /\ peer' = Uncounted(r.s)
           /\ exited' = r.exit
           /\ toClient' = Put(toClient, r.out)
    /\ UNCHANGED <<sess, toPeer, hist>>
    /\ BulkUnchanged

\* A frame the peer has sent, the newest or an older one, once or again,
\* reaches the client's DataIncoming.
BulkClientReceive ==
    /\ ~exited
    /\ \E frame \in toClient.sent :
          LET s == pollDriverForData(sess)
              r == DataIncoming(sess, frame, frame.pkt)
          IN  /\ sess' = r.s
              /\ exited' = r.exit
              /\ hist' = [hist EXCEPT !.retired =
                             @ + Len(s.OutgoingBuffer) - Len(r.s.OutgoingBuffer)]
    /\ UNCHANGED <<peer, toPeer, toClient>>
    /\ BulkUnchanged

\* The frame the client sent last reaches the peer.
BulkPeerReceive ==
    /\ ~exited
    /\ toPeer.newest # NoFrame
    /\ LET r == DataIncoming(peer, toPeer.newest, toPeer.newest.pkt)
       IN  /\ peer' = r.s
           /\ exited' = r.exit
    /\ UNCHANGED <<sess, toPeer, toClient, hist>>
    /\ BulkUnchanged

BulkTick ==
    /\ ~exited
    /\ sess.sinceLastTransmit <= PacketDelay \/ peer.sinceLastTransmit <= PacketDelay
    /\ sess' = [sess EXCEPT !.sinceLastTransmit = PacketDelay + 1]
    /\ peer' = [peer EXCEPT !.sinceLastTransmit = PacketDelay + 1]
    /\ UNCHANGED <<exited, toPeer, toClient, hist>>
    /\ BulkUnchanged

\* The client's application writes its burst.
BulkProduce ==
    /\ ~exited
    /\ sess.Driver.produced = 0
    /\ sess' = [sess EXCEPT !.Driver = DriverProduceBulk(@)]
    /\ UNCHANGED <<exited, peer, toPeer, toClient, hist>>
    /\ BulkUnchanged

BulkNext ==
    \/ BulkClientSend
    \/ BulkPeerSend
    \/ BulkClientReceive
    \/ BulkPeerReceive
    \/ BulkTick
    \/ BulkProduce

BulkSpec == BulkInit /\ [][BulkNext]_vars

\* ---------------------------------------------------------- an exec session
\* NewExecDriver starts the child and two goroutines: readOutput, which
\* reads the child's output pipe into a local buffer and appends what it
\* read to outgoingData under the driver's lock, and the one that waits for
\* the child and then sets isShutdown under the lock. The transport polls
\* the driver through the session. conc holds the child, its pipe and the
\* two goroutines; hist, what the child has written and whether a poll has
\* reported the driver done.
ExecUnchanged == UNCHANGED <<Settings, last, peer, toClient, ctl, drv, cmd, codec>>

ExecInit ==
    /\ DoEncryption = FALSE
    /\ PresharedSecret = ""
    /\ sess = [New("exec", "client", MaxInitialSeq, "c1") EXCEPT
                 !.State = StateEstablished, !.TheirSeq = PeerInitialSeq]
    /\ exited = FALSE
    /\ last = Quiet(sess)
    /\ peer = New("console", "peer", PeerInitialSeq, ServerKey)
    /\ toPeer = EmptyChannel
    /\ toClient = EmptyChannel
    /\ ctl = Absent
    /\ drv = Absent
    /\ cmd = Absent
    /\ codec = Absent
    /\ conc = [child  |-> "running",
               pipe   |-> <<>>,        \* written by the child, not yet read
               buf    |-> <<>>,        \* readOutput's buf[:n]
               reader |-> "Read",      \* where readOutput stands
               waiter |-> "Wait"]      \* where the waiting goroutine stands
    /\ hist = [written |-> 0, done |-> FALSE]

\* The child writes a byte to its output.
ChildWrite ==
    /\ conc.child = "running"
    /\ hist.written < MaxStream
    /\ conc' = [conc EXCEPT !.pipe = Append(@, AppByte("client", hist.written + 1))]
    /\ hist' = [hist EXCEPT !.written = @ + 1]
    /\ UNCHANGED <<sess, exited, toPeer>>
    /\ ExecUnchanged

\* The child exits.
ChildExit ==
    /\ conc.child = "running"
    /\ conc' = [conc EXCEPT !.child = "exited"]
    /\ UNCHANGED <<sess, exited, toPeer, hist>>
    /\ ExecUnchanged

\* readOutput: r.Read(buf) returns some of the bytes in the pipe, or the
\* end of the file once the pipe is empty and the child has gone.
ReaderRead ==
    /\ conc.reader = "Read"
    /\ \/ \E n \in 1..Len(conc.pipe) :
             conc' = [conc EXCEPT !.buf = SubSeq(conc.pipe, 1, n),
                                  !.pipe = SubSeq(@, n + 1, Len(@)),
                                  !.reader = "append"]
       \/ /\ conc.pipe = <<>>
          /\ conc.child = "exited"
          /\ conc' = [conc EXCEPT !.reader = "returned"]
    /\ UNCHANGED <<sess, exited, toPeer, hist>>
    /\ ExecUnchanged

\* readOutput: d.mu.Lock(); d.outgoingData = append(...); d.mu.Unlock()
ReaderAppend ==
    /\ conc.reader = "append"
    /\ sess' = [sess EXCEPT !.Driver.outgoingData = @ \o conc.buf,
                            !.Driver.produced = @ + Len(conc.buf)]
    /\ conc' = [conc EXCEPT !.buf = <<>>, !.reader = "Read"]
    /\ UNCHANGED <<exited, toPeer, hist>>
    /\ ExecUnchanged

\* d.cmd.Wait() returns: the child has exited.
WaitReturns ==
    /\ conc.waiter = "Wait"
    /\ conc.child = "exited"
    /\ conc' = [conc EXCEPT !.waiter = "Lock"]
    /\ UNCHANGED <<sess, exited, toPeer, hist>>
    /\ ExecUnchanged

\* d.mu.Lock(); d.isShutdown = true; d.mu.Unlock()
WaiterShutsDown ==
    /\ conc.waiter = "Lock"
    /\ sess' = [sess EXCEPT !.Driver.isShutdown = TRUE]
    /\ conc' = [conc EXCEPT !.waiter = "returned"]
    /\ UNCHANGED <<exited, toPeer, hist>>
    /\ ExecUnchanged

\* The transport's doSend: Session.GetOutgoing, which polls the driver.
ExecGetOutgoing ==
    /\ ~exited
    /\ LET r == GetOutgoing(sess, NetMaxLength, "c2")
       IN  /\ sess' = Uncounted(r.s)
           /\ exited' = r.exit
           /\ toPeer' = Put(toPeer, r.out)
           /\ hist' = [hist EXCEPT
                          !.done = @ \/ DriverGetOutgoing(sess.Driver).done]
    /\ UNCHANGED conc
    /\ ExecUnchanged

\* Time passes: more than the packet delay.
ExecTick ==
    /\ ~exited
    /\ sess.sinceLastTransmit <= PacketDelay
    /\ sess' = [sess EXCEPT !.sinceLastTransmit = PacketDelay + 1]
    /\ UNCHANGED <<exited, toPeer, conc, hist>>
    /\ ExecUnchanged

ExecNext ==
    \/ ChildWrite
    \/ ChildExit
    \/ ReaderRead
    \/ ReaderAppend
    \/ WaitReturns
    \/ WaiterShutsDown
    \/ ExecGetOutgoing
    \/ ExecTick

ExecSpec == ExecInit /\ [][ExecNext]_vars

\* ---------------------------------------------------- the length of a frame
\* The bytes of the frames Session.GetOutgoing returns, as Packet.ToBytes,
\* Encryptor.Encrypt and Encryptor.Sign write them, against the length the
\* DNS transport allows. What the bytes of a name, a key or a cipher text
\* are does not bear on their number: they are written as zeros.
MaxFieldLength       == 62
MaxDNSLength         == 255
WildcardPrefixLength == 6     \* len("dnscat")
HeaderLength         == 5
SignatureLength      == 6
FinReasonLength      == 13    \* len("Stream closed")

\* Lengths of the domain the client is started with (0 would be: none).
DomainLengths == {11, 60, 113}

\* Driver.MaxDNSCatLength
MaxDNSCatLength(domainLen) ==
    (MaxDNSLength \div 2)
      - (IF domainLen = 0 THEN WildcardPrefixLength ELSE domainLen)
      - 1 - ((MaxDNSLength \div MaxFieldLength) + 1)

PacketTypeOf(type) ==
    CASE type = "SYN"  -> PacketTypeSYN
      [] type = "MSG"  -> PacketTypeMSG
      [] type = "FIN"  -> PacketTypeFIN
      [] type = "ENC"  -> PacketTypeENC
      [] type = "PING" -> PacketTypePING

\* The protocol.Packet GetOutgoing builds for session s: CreateSYN with
\* SetName(s.Name), CreateMSG, CreateFIN(s.ID, "Stream closed"), CreatePING,
\* CreateENC with SetEncInit or SetEncAuth.
BuiltPacket(s, pkt) ==
    LET p == CodecPacket(0, PacketTypeOf(pkt.PacketType), pkt.SessionID)
    IN  CASE pkt.PacketType = "SYN" ->
               [p EXCEPT !.body = "SYN", !.Seq = pkt.Seq,
                         !.Options = pkt.Options,
                         !.Name = Zeros(Len(s.Name))]
          [] pkt.PacketType = "MSG" ->
               [p EXCEPT !.body = "MSG", !.Seq = pkt.Seq, !.Ack = pkt.Ack,
                         !.Data = pkt.Data]
          [] pkt.PacketType = "FIN" ->
               [p EXCEPT !.body = "FIN", !.Reason = Zeros(FinReasonLength)]
          [] pkt.PacketType = "PING" ->
               [p EXCEPT !.body = "PING", !.PingData = pkt.Data]
          [] pkt.PacketType = "ENC" ->
               [p EXCEPT !.body = "ENC", !.Subtype = pkt.Subtype,
                         !.PublicKey = Zeros(PublicKeyLength),
                         !.Authenticator = Zeros(AuthenticatorLength)]

\* Encryptor.Encrypt: header, the two bytes of the nonce, the body under the
\* cipher stream (as many bytes as the body).
Encrypt(nonce, data) ==
    IF Len(data) < HeaderLength THEN data
    ELSE SubSeq(data, 1, HeaderLength) \o PutUint16(nonce)
         \o Zeros(Len(data) - HeaderLength)

\* Encryptor.Sign: header, the truncated signature, the body.
Sign(data) ==
    IF Len(data) < HeaderLength THEN data
    ELSE SubSeq(data, 1, HeaderLength) \o Zeros(SignatureLength)
         \o SubSeq(data, HeaderLength + 1, Len(data))

\* The bytes GetOutgoing returns for the frame it built.
OutgoingBytes(s, frame) ==
    LET bytes == ToBytes(BuiltPacket(s, frame.pkt)).bytes
    IN  IF frame.key = ClearKey THEN bytes
        ELSE Sign(Encrypt(frame.nonce, bytes))

\* What the transport was given by the last GetOutgoing: the length it
\* allowed, the length of the frame it got, and whether the call ended in
\* the run-time panic of make([]byte, dataLen) with a negative dataLen.
Measured(maxLength, length, panicked) ==
    [maxLength |-> maxLength, length |-> length, panicked |-> panicked]

LengthSessions ==
    {New(kind, "client", MaxInitialSeq, "c1") : kind \in AllKinds}
    \cup (IF DoEncryption
          THEN {[New("console", "client", MaxInitialSeq, "c1") EXCEPT
                   !.State = StateEstablished,
                   !.Encryptor = [SetTheirPublicKey(@, ServerKey) EXCEPT
                                     !.nonce = RenegotiateAfter + 1]]}
          ELSE {})

LengthInit ==
    /\ DoEncryption \in BOOLEAN
    /\ PresharedSecret = "hunter2"
    /\ sess \in LengthSessions
    /\ exited = FALSE
    /\ last = Quiet(sess)
    /\ peer = New("console", "peer", 0, ServerKey)
    /\ toPeer = EmptyChannel
    /\ toClient = EmptyChannel
    /\ ctl = Absent
    /\ drv = Absent
    /\ cmd = Absent
    /\ conc = Absent
    /\ codec = Absent
    /\ \E domainLen \in DomainLengths :
          hist = Measured(MaxDNSCatLength(domainLen), 0, FALSE)

\* doSend: controller.GetOutgoing(d.MaxDNSCatLength()).
LengthGetOutgoing ==
    /\ ~exited
    /\ CallBudget(sess)
    /\ \E keyPair \in ClientKeyPairs \ {sess.Encryptor.myKey} :
          LET r       == GetOutgoing(sess, hist.maxLength, keyPair)
              noRoom  == shouldEncrypt(sess)
                           /\ hist.maxLength - EncryptOverhead <= 0
          IN  /\ sess' = r.s
              /\ exited' = r.exit
              /\ last' = Last("GetOutgoing", r.out.key, r.out.pkt,
                              r.out # NoFrame, sess.State, 0, 0)
              /\ hist' = Measured(hist.maxLength,
                                  IF r.out = NoFrame THEN 0
                                  ELSE Len(OutgoingBytes(r.s, r.out)),
                                  r.exit /\ canTransmitYet(sess) /\ ~noRoom)
    /\ UNCHANGED <<Settings, peer, toPeer, toClient, ctl, drv, cmd, conc, codec>>

\* The frames a server that follows the protocol sends to the session: its
\* SYN, a MSG that acknowledges what the session holds, a FIN, its key, its
\* authenticator, a PING.
ServerPackets(s) ==
    {CreateSYN(s.ID, 0, 0), CreateFIN(s.ID), CreateENCInit(s.ID, ServerKey),
     CreateENCAuth(s.ID, makeAuthenticator(s.Encryptor, "server")),
     CreatePING(s.ID, PingData)}
    \cup {CreateMSG(s.ID, s.TheirSeq, ack, d) :
            ack \in AckChoices(s), d \in DataChoices(s)}

\* Run reads one of them and calls DataIncoming.
LengthDataIncoming ==
    /\ ~exited
    /\ LET s == pollDriverForData(sess)
       IN  \E pkt \in ServerPackets(s) :
               LET data == Wire(IF shouldEncrypt(s) THEN TheirKeys(s.Encryptor)
                                ELSE ClearKey, pkt)
                   r    == DataIncoming(sess, data, pkt)
               IN  /\ sess' = r.s
                   /\ exited' = r.exit
                   /\ last' = Last("DataIncoming", data.key, pkt, r.ret,
                                   sess.State,
                                   Len(s.OutgoingBuffer) - Len(r.s.OutgoingBuffer),
                                   Len(r.s.Driver.received) - Len(s.Driver.received))
    /\ UNCHANGED Settings
    /\ NetUnchanged

LengthNext ==
    \/ LengthGetOutgoing
    \/ LengthDataIncoming
    \/ Tick
    \/ Produce
    \/ Finish
    \/ KillCall

LengthSpec == LengthInit /\ [][LengthNext]_vars

\* ------------------------------------------------------ the end of a session
\* Everything that ends a session, as steps of the goroutine it runs on. On
\* the transport's goroutine: a FIN read by Run, the Heartbeat of a receive
\* timeout, a driver that reports done to the poll of doSend. On the
\* goroutine of the service's control loop: controller.Destroy, which
\* Execute calls from the timer branch of its select after a stop request,
\* while Run, which nothing has told to stop, goes on. Session.Kill reads
\* and writes isShutdown without the session's lock.

\* Session.DataIncoming on a FIN frame: handleFIN calls Kill.
StepsOfFinIncoming(n) ==
    <<Lock(SessionMu(n))>> \o StepsOfPoll(n)
    \o <<Do("Kill", n), Unlock(SessionMu(n)), Do("return", "")>>

\* controller.Heartbeat when every session has missed more transmissions
\* than MaxRetransmits: killIgnoredSessions has the loop of KillAllSessions.
StepsOfHeartbeat(sessions) ==
    StepsOfKillAllSessions(sessions) \o <<Do("return", "")>>

\* doSend when the driver reports done and the session's buffer is empty:
\* pollDriverForData calls Kill, and GetOutgoing goes on to return a frame.
StepsOfDoSendDone(n) ==
    <<Lock(ControllerMu), Lock(SessionMu(n)), Unlock(SessionMu(n)),
      Unlock(ControllerMu), Lock(SessionMu(n))>>
    \o StepsOfPoll(n)
    \o <<Do("Kill", n), Unlock(SessionMu(n)), IO("conn.Write"),
         Do("return", "")>>

\* controller.Destroy: under the Controller's lock, for every session
\* IsShutdown, Kill, and Session.Destroy (under the session's lock); then
\* the list is dropped.
RECURSIVE StepsOfDestroyLoop(_)
StepsOfDestroyLoop(sessions) ==
    IF sessions = <<>> THEN <<>>
    ELSE LET n == Head(sessions)
         IN  <<Lock(SessionMu(n)), Unlock(SessionMu(n)), Do("Kill", n),
               Lock(SessionMu(n)), Do("Destroy", n), Unlock(SessionMu(n))>>
             \o StepsOfDestroyLoop(Tail(sessions))

StepsOfControllerDestroy(sessions) ==
    <<Lock(ControllerMu)>> \o StepsOfDestroyLoop(sessions)
    \o <<Do("sessions = nil", ""), Unlock(ControllerMu)>>

\* main has registered the command session, which has started an exec
\* session, and Run has started.
StopInit ==
    /\ DoEncryption = FALSE
    /\ PresharedSecret = ""
    /\ sess = New("console", "client", MaxInitialSeq, "c1")
    /\ exited = FALSE
    /\ last = Quiet(sess)
    /\ peer = New("console", "peer", 0, ServerKey)
    /\ toPeer = EmptyChannel
    /\ toClient = EmptyChannel
    /\ ctl = Absent
    /\ drv = Absent
    /\ cmd = Absent
    /\ hist = Absent
    /\ codec = Absent
    /\ conc = [prog     |-> [t \in Goroutines |-> <<>>],
               held     |-> [l \in Locks |-> "none"],
               io       |-> [t \in Goroutines |-> ""],
               request  |-> "",
               sessions |-> <<"command", "exec">>,
               shutdown |-> {},
               closed   |-> {},
               closes   |-> [n \in SessionNames |-> 0],
               queued   |-> <<>>,
               tunnel   |-> FALSE,
               frames   |-> 0,
               reads    |-> 0,
               stopping |-> FALSE]

\* The transport reads a FIN for one of the sessions.
ReceiveFIN ==
    /\ ~Running("transport")
    /\ conc.frames < MaxFrames
    /\ \E n \in SessionNames :
          conc' = [conc EXCEPT !.prog["transport"] = StepsOfFinIncoming(n),
                               !.request = "FIN",
                               !.frames = @ + 1]
    /\ GoUnchanged

\* The read of the socket times out and the Heartbeat evicts.
StartHeartbeat ==
    /\ ~Running("transport")
    /\ conc.frames < MaxFrames
    /\ conc' = [conc EXCEPT
                   !.prog["transport"] = StepsOfHeartbeat(conc.sessions),
                   !.request = "Heartbeat",
                   !.frames = @ + 1]
    /\ GoUnchanged

\* doSend for a session that is not shut down and whose driver is done.
StartDoSendDone ==
    /\ ~Running("transport")
    /\ conc.frames < MaxFrames
    /\ \E i \in 1..Len(conc.sessions) :
          /\ conc.sessions[i] \notin conc.shutdown
          /\ conc' = [conc EXCEPT
                         !.prog["transport"] = StepsOfDoSendDone(conc.sessions[i]),
                         !.request = "doSend",
                         !.frames = @ + 1]
    /\ GoUnchanged

\* The service is told to stop and Execute comes to controller.Destroy().
ServiceStop ==
    /\ ~conc.stopping
    /\ conc' = [conc EXCEPT
                   !.prog["service"] = StepsOfControllerDestroy(conc.sessions),
                   !.stopping = TRUE]
    /\ GoUnchanged

StopNext ==
    \/ ReceiveFIN
    \/ StartHeartbeat
    \/ StartDoSendDone
    \/ ServiceStop
    \/ Acquire
    \/ Release
    \/ BeginIO
    \/ EndIO
    \/ Assign

StopSpec == StopInit /\ [][StopNext]_vars

\* =================================================================== claims
\* The step just taken was DataIncoming on a frame of the given type.
Received(type) == last.op = "DataIncoming" /\ last.pkt.PacketType = type

\* The session the handlers of DataIncoming start from: DataIncoming polls
\* the driver before it looks at the bytes.
Polled == pollDriverForData(sess)

\* The bytes of the step reach the handlers: without encryption they are read
\* as they are, with encryption only if the peer's signature verifies.
Verified == shouldEncrypt(Polled) => last'.key = TheirKeys(Polled.Encryptor)

\* The bytes the peer's application wrote, in order.
PeerStream == [k \in 1..peer.Driver.produced |-> 100 + k]

C2_EventuallyRetired ==
    <>[](sess.OutgoingBuffer = <<>> /\ sess.Driver.outgoingData = <<>>)

\* The number of bytes the frame of the step acknowledges, as the protocol
\* defines it.
AckedByFrame == (last'.pkt.Ack - Polled.MySeq + 65536) % 65536

\* The frame of the step is a MSG that meets every condition of acceptance.
Acceptable ==
    /\ Verified
    /\ Polled.State = StateEstablished
    /\ last'.pkt.Seq = Polled.TheirSeq
    /\ AckedByFrame <= Len(Polled.OutgoingBuffer)

\* The handler left the sequence numbers, the state, the options, the
\* outgoing buffer, the miss counter and the driver's input as they were.
Untouched ==
    /\ sess'.MySeq = Polled.MySeq
    /\ sess'.TheirSeq = Polled.TheirSeq
    /\ sess'.State = Polled.State
    /\ sess'.Options = Polled.Options
    /\ sess'.OutgoingBuffer = Polled.OutgoingBuffer
    /\ sess'.MissedTransmissions = Polled.MissedTransmissions
    /\ sess'.Driver.received = Polled.Driver.received

\* C3: when a MSG is accepted with acknowledgment number A, N = (A - MySeq)
\* mod 65536 bytes are acknowledged: MySeq becomes (MySeq + N) mod 65536 and
\* exactly the first N bytes leave the outgoing buffer, also across 0xFFFF.
C3_AckArithmetic ==
    [][Received("MSG")' /\ Acceptable =>
          LET N == AckedByFrame
              B == Polled.OutgoingBuffer
          IN  /\ sess'.MySeq = (Polled.MySeq + N) % 65536
              /\ Len(sess'.OutgoingBuffer) = Len(B) - N
              /\ \A i \in 1..(Len(B) - N) : sess'.OutgoingBuffer[i] = B[N + i]]_vars

\* A MSG acknowledging two bytes was accepted at MySeq = 0xFFFE: MySeq wrapped.
C3_Witness ==
    /\ Received("MSG")
    /\ last.from = StateEstablished
    /\ last.pkt.Ack = 0
    /\ last.acked = 2
    /\ sess.MySeq = 0

\* C4: a MSG whose acknowledgment implies more bytes than the outgoing buffer
\* holds is rejected as a whole: buffer, MySeq and TheirSeq unchanged,
\* MissedTransmissions not reset, payload not handed to the driver.
C4_BadAckRejected ==
    [][Received("MSG")' /\ AckedByFrame > Len(Polled.OutgoingBuffer) =>
          Untouched]_vars

\* An Established session with a miss on its counter and a byte in its buffer
\* has read a MSG in sequence, carrying a payload, that acknowledges more
\* than the buffer holds.
C4_Witness ==
    /\ Received("MSG")
    /\ last.from = StateEstablished
    /\ last.pkt.Seq = sess.TheirSeq
    /\ Len(last.pkt.Data) > 0
    /\ Len(sess.OutgoingBuffer) > 0
    /\ (last.pkt.Ack - sess.MySeq + 65536) % 65536 > Len(sess.OutgoingBuffer)
    /\ sess.MissedTransmissions > 0

\* C5: a MSG is accepted only in Established and with its sequence number
\* equal to TheirSeq; otherwise MySeq, TheirSeq, State and the buffer are
\* unchanged and no payload reaches the driver. On acceptance TheirSeq
\* advances by the payload length mod 65536 and the driver gets the payload
\* exactly once.
C5_MsgAcceptance ==
    [][Received("MSG")' =>
          IF Acceptable
          THEN /\ sess'.TheirSeq =
                      (Polled.TheirSeq + Len(last'.pkt.Data)) % 65536
               /\ sess'.Driver.received =
                      Polled.Driver.received \o last'.pkt.Data
               /\ sess'.State = StateEstablished
          ELSE Untouched]_vars

\* A MSG with one byte of payload was accepted at TheirSeq = 0xFFFF: the
\* byte reached the driver and TheirSeq wrapped to 0.
C5_Witness ==
    /\ Received("MSG")
    /\ last.from = StateEstablished
    /\ last.pkt.Seq = 65535
    /\ last.delivered = 1
    /\ sess.TheirSeq = 0
    /\ sess.Driver.received = last.pkt.Data

\* C6: a SYN is acted on only in New, where it sets TheirSeq, Options and
\* State = Established; in any other state it leaves State, TheirSeq, MySeq,
\* Options and the outgoing buffer unchanged.
C6_SynOnlyInNew ==
    [][Received("SYN")' =>
          IF Verified /\ Polled.State = StateNew
          THEN /\ sess'.TheirSeq = last'.pkt.Seq
               /\ sess'.Options = last'.pkt.Options
               /\ sess'.State = StateEstablished
          ELSE Untouched]_vars

\* A second SYN, with another sequence number and other options, reached a
\* session a first SYN had made Established, and changed nothing.
C6_Witness ==
    /\ Received("SYN")
    /\ last.from = StateEstablished
    /\ last.pkt.Seq = 0
    /\ last.pkt.Options = 0
    /\ sess.TheirSeq = 65535
    /\ sess.Options = OptName
    /\ sess.State = StateEstablished

\* C7: State only moves forward in the order BeforeInit, BeforeAuth, New,
\* Established, and never leaves Established; a session starts in BeforeInit
\* with encryption enabled and in New with encryption disabled.
C7_StateForward ==
    /\ sess.State = IF DoEncryption THEN StateBeforeInit ELSE StateNew
    /\ [][/\ sess'.State >= sess.State
          /\ sess.State = StateEstablished => sess'.State = StateEstablished]_vars

\* A session that went through all four states was shut down and is still
\* Established.
C7_Witness ==
    /\ DoEncryption
    /\ PresharedSecret # ""
    /\ sess.State = StateEstablished
    /\ sess.isShutdown
    /\ sess.Driver.closed > 0

\* C8: with no pre-shared secret the peer's key-init in BeforeInit moves the
\* session directly to New; BeforeAuth is reachable only with a secret.
C8_NoSecretSkipsAuth ==
    /\ [][/\ Received("ENC")'
          /\ PresharedSecret = ""
          /\ Polled.State = StateBeforeInit
          /\ last'.pkt.Subtype = EncSubtypeInit
          /\ last'.pkt.PublicKey \notin {BadKey, NoKey}
          => sess'.State = StateNew]_vars
    /\ [](sess.State = StateBeforeAuth => PresharedSecret # "")

\* Without a secret, a key-init read in BeforeInit has led to New.
C8_Witness ==
    /\ Received("ENC")
    /\ PresharedSecret = ""
    /\ last.from = StateBeforeInit
    /\ last.pkt.Subtype = EncSubtypeInit
    /\ sess.State = StateNew
    /\ sess.Encryptor.theirPublicKey = ServerKey

\* The step is DataIncoming in BeforeAuth on a verified ENC auth frame whose
\* authenticator is the one the session computed for the peer:
\* H("server", shared secret, own public key, peer's public key, secret).
MatchingAuth ==
    /\ Received("ENC")'
    /\ Verified
    /\ Polled.State = StateBeforeAuth
    /\ last'.pkt.Subtype = EncSubtypeAuth
    /\ last'.pkt.Authenticator =
          [role   |-> "server",
           secret |-> {Polled.Encryptor.myKey, Polled.Encryptor.theirPublicKey},
           mine   |-> Polled.Encryptor.myKey,
           theirs |-> Polled.Encryptor.theirPublicKey,
           psk    |-> PresharedSecret]

\* The step is DataIncoming in BeforeAuth on a verified ENC auth frame with
\* another authenticator.
OtherAuth ==
    /\ Received("ENC")'
    /\ Verified
    /\ Polled.State = StateBeforeAuth
    /\ last'.pkt.Subtype = EncSubtypeAuth
    /\ ~MatchingAuth

\* C9 as stated: with a pre-shared secret configured a session is in New or
\* Established only after a matching ENC auth frame read in BeforeAuth; any
\* other authenticator ends the client, and State does not reach New.
C9_AuthWithSecret ==
    /\ PresharedSecret # "" => sess.State < StateNew
    /\ [][PresharedSecret # "" /\ sess.State < StateNew /\ sess'.State >= StateNew
            => MatchingAuth]_vars
    /\ [][PresharedSecret # "" /\ OtherAuth
            => exited' /\ sess'.State < StateNew]_vars

\* C9, amended: the same for a session created with encryption enabled and a
\* pre-shared secret configured.
C9_AuthWithSecretEncrypted ==
    /\ DoEncryption /\ PresharedSecret # "" => sess.State < StateNew
    /\ [][/\ DoEncryption /\ PresharedSecret # ""
          /\ sess.State < StateNew /\ sess'.State >= StateNew
          => MatchingAuth]_vars
    /\ [][DoEncryption /\ PresharedSecret # "" /\ OtherAuth
            => exited' /\ sess'.State < StateNew]_vars

\* The client has ended in BeforeAuth on an ENC auth frame computed from
\* another secret.
C9_Witness ==
    /\ DoEncryption
    /\ PresharedSecret = "hunter2"
    /\ Received("ENC")
    /\ last.from = StateBeforeAuth
    /\ last.pkt.Subtype = EncSubtypeAuth
    /\ last.pkt.Authenticator.psk = "other"
    /\ last.key = TheirKeys(sess.Encryptor)
    /\ exited
    /\ sess.State = StateBeforeAuth

\* An engine the peer's public key has been installed in.
HasPeerKey(e) == e.theirPublicKey \notin {NoKey, BadKey} /\ SharedSecret(e) # {}

\* C10: no frame is encrypted, signed, verified or decrypted with an engine
\* lacking the peer's public key: what is sent in BeforeInit is in clear, a
\* session that left BeforeInit (and so uses its engine) has the key
\* installed, every protected frame is under keys derived from an installed
\* key, and an engine pending in a renegotiation is not the active one.
C10_NoKeylessCrypto ==
    /\ DoEncryption /\ sess.State # StateBeforeInit => HasPeerKey(sess.Encryptor)
    /\ last.op = "GetOutgoing" /\ last.from = StateBeforeInit
          => last.key = ClearKey
    /\ last.op = "GetOutgoing" /\ last.key # ClearKey
          => /\ last.key.secret # {}
             /\ DoEncryption /\ last.from # StateBeforeInit
    /\ sess.NewEncryptor # NilEncryptor
          => /\ ~HasPeerKey(sess.NewEncryptor)
             /\ sess.Encryptor.myKey # sess.NewEncryptor.myKey
             /\ HasPeerKey(sess.Encryptor)

\* After a renegotiation the session has sent a frame under the new engine,
\* which holds the peer's key.
C10_Witness ==
    /\ DoEncryption
    /\ sess.Encryptor.myKey = "c2"
    /\ sess.Encryptor.theirPublicKey = ServerKey
    /\ sess.NewEncryptor = NilEncryptor
    /\ last.op = "GetOutgoing"
    /\ last.key = [dir |-> "client", secret |-> {"c2", ServerKey}]

C12_AtomicSwap ==
    /\ DoEncryption => sess.Encryptor # NilEncryptor
    /\ sess.NewEncryptor # NilEncryptor
          => /\ sess.Encryptor # NilEncryptor
             /\ sess.NewEncryptor # sess.Encryptor
             /\ sess.NewEncryptor.myKey # sess.Encryptor.myKey
    /\ [][/\ Received("ENC")'
          /\ Verified
          /\ Polled.State = StateEstablished
          /\ sess.NewEncryptor # NilEncryptor
          /\ last'.pkt.PublicKey \notin {NoKey, BadKey}
          => /\ ~exited'
             /\ last'.key = TheirKeys(sess.Encryptor)
             /\ sess'.Encryptor.myKey = sess.NewEncryptor.myKey
             /\ sess'.Encryptor.theirPublicKey = last'.pkt.PublicKey
             /\ sess'.Encryptor.nonce = sess.NewEncryptor.nonce
             /\ sess'.NewEncryptor = NilEncryptor]_vars
    /\ [][last'.op = "GetOutgoing" /\ last'.ret /\ sess.State # StateBeforeInit
          /\ DoEncryption
          => /\ last'.key = MyKeys(sess.Encryptor)
             /\ sess'.Encryptor.myKey = sess.Encryptor.myKey
             /\ sess'.Encryptor.theirPublicKey = sess.Encryptor.theirPublicKey]_vars
    /\ [][/\ last'.op = "DataIncoming"
          /\ sess.State # StateBeforeInit
          /\ DoEncryption
          /\ last'.ret \/ exited' \/ sess'.State # sess.State
             \/ sess'.Encryptor # sess.Encryptor
          => last'.key = TheirKeys(sess.Encryptor)]_vars
    /\ [][/\ sess.State = StateEstablished
          /\ \/ sess'.Encryptor.myKey # sess.Encryptor.myKey
             \/ sess'.Encryptor.theirPublicKey # sess.Encryptor.theirPublicKey
             \/ sess.NewEncryptor # NilEncryptor /\ sess'.NewEncryptor = NilEncryptor
          => /\ Received("ENC")'
             /\ sess.NewEncryptor # NilEncryptor
             /\ sess'.NewEncryptor = NilEncryptor
             /\ sess'.Encryptor.myKey = sess.NewEncryptor.myKey]_vars

\* The swap has just happened: the ENC frame was verified under the old
\* engine's keys, the engine that was pending is active, nothing is pending.
C12_Witness ==
    /\ Received("ENC")
    /\ last.from = StateEstablished
    /\ last.ret
    /\ last.key = [dir |-> "server", secret |-> {"c1", ServerKey}]
    /\ sess.Encryptor.myKey = "c2"
    /\ sess.Encryptor.theirPublicKey = last.pkt.PublicKey
    /\ sess.Encryptor.nonce = 0
    /\ sess.NewEncryptor = NilEncryptor
    /\ ~exited

\* C13: a FIN frame that reaches the dispatch of DataIncoming shuts the
\* session down, whatever its state: when the call returns the session is
\* marked shut down, its driver is closed, and the process has not ended.
C13_FinShutsDown ==
    [][Received("FIN")' /\ Verified
         => /\ sess'.isShutdown
            /\ sess'.Driver.isShutdown
            /\ sess'.Driver.closed >= 1
            /\ sess'.State = Polled.State
            /\ ~exited']_vars

\* A FIN frame read during the handshake, in BeforeAuth, shut the session
\* down and closed its driver.
C13_Witness ==
    /\ Received("FIN")
    /\ last.from = StateBeforeAuth
    /\ last.key = TheirKeys(sess.Encryptor)
    /\ sess.isShutdown
    /\ sess.Driver.closed = 1
    /\ sess.State = StateBeforeAuth

\* C14: a frame that fails the signature check, the decryption or the parse
\* is discarded: DataIncoming returns false, the process keeps running, and
\* State, MySeq, TheirSeq, Options, the active and the pending engine, the
\* outgoing buffer, the miss counter and the shutdown mark are as the poll at
\* the start of the call left them; nothing is handed to the driver.
C14_Discarded ==
    [][last'.op = "DataIncoming" /\ (~Verified \/ last'.pkt = Malformed)
         => /\ ~last'.ret
            /\ ~exited'
            /\ Untouched
            /\ sess'.Encryptor = sess.Encryptor
            /\ sess'.NewEncryptor = sess.NewEncryptor
            /\ sess'.isShutdown = Polled.isShutdown
            /\ sess'.Driver = Polled.Driver
            /\ last'.acked = 0
            /\ last'.delivered = 0]_vars

\* An Established session with unacknowledged bytes has just read a FIN
\* frame signed with a key that is not the peer's, and goes on.
C14_Witness ==
    /\ Received("FIN")
    /\ last.key = ForgedKey
    /\ last.from = StateEstablished
    /\ DoEncryption
    /\ ~last.ret
    /\ ~sess.isShutdown
    /\ Len(sess.OutgoingBuffer) > 0
    /\ ~exited

\* The frame of the step verifies and parses but is of a type its state has
\* no use for: a SYN outside New, a MSG outside Established, an ENC in New,
\* or an ENC in Established while no renegotiation is pending.
InvalidForState ==
    /\ last'.op = "DataIncoming"
    /\ Verified
    /\ last'.pkt # Malformed
    /\ \/ last'.pkt.PacketType = "SYN" /\ Polled.State # StateNew
       \/ last'.pkt.PacketType = "MSG" /\ Polled.State # StateEstablished
       \/ last'.pkt.PacketType = "ENC" /\ Polled.State = StateNew
       \/ /\ last'.pkt.PacketType = "ENC"
          /\ Polled.State = StateEstablished
          /\ Polled.NewEncryptor = NilEncryptor

\* C15: a frame that verifies and parses but is invalid for the current
\* state is ignored, with the session as the poll left it and the process
\* still running; the process ends on a frame only when that frame is an ENC
\* auth frame read in BeforeAuth whose authenticator does not match.
C15_InvalidIgnored ==
    /\ [][InvalidForState => ~exited' /\ ~last'.ret /\ Untouched]_vars
    /\ [][last'.op = "DataIncoming" /\ exited' /\ ~exited => OtherAuth]_vars

\* The poll of the step finds the driver done and the outgoing buffer empty.
DriverDoneOnEmpty ==
    DriverGetOutgoing(sess.Driver).done /\ Len(sess.OutgoingBuffer) = 0

\* C16: a GetOutgoing call on a live session whose poll finds the driver
\* done while the outgoing buffer is empty kills the session and emits no
\* frame, whatever the state.
C16_KilledEmitsNothing ==
    [][last'.op = "GetOutgoing" /\ ~sess.isShutdown /\ DriverDoneOnEmpty
         => sess'.isShutdown /\ ~last'.ret]_vars

\* The step is DataIncoming on a MSG frame that was accepted and either
\* acknowledged bytes or carried a payload.
ProgressMSG ==
    /\ Received("MSG")'
    /\ Acceptable
    /\ last'.acked > 0 \/ last'.delivered > 0

\* More than the packet delay has passed since the session's LastTransmit,
\* which is the time of its last emitted frame or, once the
\* immediate-response flag is set, the zero time.
Waited(s) == s.sinceLastTransmit > PacketDelay

\* The step lets the session transmit where it could not before.
DelayLifted == ~Waited(sess) /\ Waited(sess')

\* C17 as stated: GetOutgoing emits a frame only when the delay since the
\* last emitted frame has passed or an accepted MSG has set the
\* immediate-response flag since; an emitted frame starts the delay anew and
\* clears the flag.
C17_DelayOrFlag ==
    /\ [][last'.op = "GetOutgoing" /\ last'.ret
            => Waited(sess) /\ ~Waited(sess')]_vars
    /\ [][DelayLifted => Tick \/ ProgressMSG]_vars

\* C17, amended: the same, with the flag set by an accepted MSG that
\* acknowledged bytes or carried a payload, or by a FIN.
C17_DelayOrFlagOrFin ==
    /\ [][last'.op = "GetOutgoing" /\ last'.ret
            => Waited(sess) /\ ~Waited(sess')]_vars
    /\ [][last'.op = "GetOutgoing" /\ ~Waited(sess)
            => ~last'.ret /\ ~Waited(sess')]_vars
    /\ [][DelayLifted
            => Tick \/ ProgressMSG \/ (Received("FIN")' /\ Verified)]_vars
    /\ [][Received("MSG")' /\ Acceptable /\ last'.acked = 0 /\ last'.delivered = 0
            => Waited(sess') = Waited(sess)]_vars

\* An Established session with bytes to send has just been asked for a frame
\* before the delay had passed, and emitted none.
C17_Witness ==
    /\ last.op = "GetOutgoing"
    /\ last.from = StateEstablished
    /\ ~last.ret
    /\ ~Waited(sess)
    /\ Len(sess.OutgoingBuffer) > 0
    /\ sess.NewEncryptor = NilEncryptor
    /\ ~sess.isShutdown
    /\ ~exited

\* The frame the GetOutgoing call of the step emitted is of the type the
\* state the call found prescribes.
FrameOfState ==
    \/ /\ sess.State = StateBeforeInit
       /\ last'.pkt.PacketType = "ENC"
       /\ last'.pkt.Subtype = EncSubtypeInit
    \/ /\ sess.State = StateBeforeAuth
       /\ last'.pkt.PacketType = "ENC"
       /\ last'.pkt.Subtype = EncSubtypeAuth
    \/ /\ sess.State = StateNew
       /\ last'.pkt.PacketType = "SYN"
    \/ /\ sess.State = StateEstablished
       /\ \/ last'.pkt.PacketType \in {"MSG", "FIN"}
          \/ /\ last'.pkt.PacketType = "ENC"
             /\ last'.pkt.Subtype = EncSubtypeInit

\* C18 as stated: a frame GetOutgoing returns is of the type its state
\* prescribes: ENC key-init in BeforeInit, ENC auth in BeforeAuth, SYN in
\* New, and MSG, FIN or the renegotiation's ENC key-init in Established.
C18_FrameOfState ==
    [][last'.op = "GetOutgoing" /\ last'.ret => FrameOfState]_vars

\* C18, amended: that holds for every session but a ping session, whose
\* frame is a PING in every state.
C18_FrameOfStateOrPing ==
    [][last'.op = "GetOutgoing" /\ last'.ret
         => IF sess.IsPing THEN last'.pkt.PacketType = "PING"
            ELSE FrameOfState]_vars

\* A console session in BeforeAuth has just emitted its ENC auth frame.
C18_Witness ==
    /\ last.op = "GetOutgoing"
    /\ last.ret
    /\ last.from = StateBeforeAuth
    /\ sess.State = StateBeforeAuth
    /\ ~sess.IsPing
    /\ last.pkt.PacketType = "ENC"
    /\ last.pkt.Subtype = EncSubtypeAuth
    /\ last.pkt.Authenticator.role = "client"

\* The payload a frame with the given header size carries when it is built
\* from the polled buffer: its first k bytes, k the smaller of the buffer's
\* length and the room the transport leaves after the header and, once the
\* session encrypts, the encryption overhead.
FirstBytes(header) ==
    {SubSeq(Polled.OutgoingBuffer, 1, k) :
        k \in {Min(Len(Polled.OutgoingBuffer),
                   maxLength - header
                   - (IF DoEncryption /\ sess.State # StateBeforeInit
                      THEN 8 ELSE 0)) : maxLength \in MaxLengths}
              \cap (0..Len(Polled.OutgoingBuffer))}

\* C19: building a frame removes nothing from the outgoing buffer. After a
\* GetOutgoing call the buffer is what the poll made of it and the sequence
\* numbers are unchanged; a MSG it emits carries seq MySeq, ack TheirSeq and
\* the first k bytes of the buffer, a PING the first k bytes likewise. The
\* buffer loses bytes in one step only: DataIncoming on an accepted MSG that
\* acknowledges them, which cuts exactly that many from its front.
C19_NonDestructiveRead ==
    /\ [][last'.op = "GetOutgoing" /\ ~exited'
            => /\ sess'.OutgoingBuffer = Polled.OutgoingBuffer
               /\ sess'.MySeq = sess.MySeq
               /\ sess'.TheirSeq = sess.TheirSeq
               /\ last'.ret /\ last'.pkt.PacketType = "MSG"
                     => /\ last'.pkt.Seq = sess.MySeq
                        /\ last'.pkt.Ack = sess.TheirSeq
                        /\ last'.pkt.Data \in FirstBytes(9)
               /\ last'.ret /\ last'.pkt.PacketType = "PING"
                     => last'.pkt.Data \in FirstBytes(6)]_vars
    /\ [][last'.op = "DataIncoming"
          /\ sess'.OutgoingBuffer # Polled.OutgoingBuffer
            => /\ Received("MSG")'
               /\ Acceptable
               /\ AckedByFrame > 0
               /\ sess'.OutgoingBuffer =
                     SubSeq(Polled.OutgoingBuffer, AckedByFrame + 1,
                            Len(Polled.OutgoingBuffer))]_vars
    /\ [][last'.op \notin {"GetOutgoing", "DataIncoming"}
            => sess'.OutgoingBuffer = sess.OutgoingBuffer]_vars

\* An Established session without encryption has emitted two frames since
\* it last heard from its peer, the second a MSG carrying the whole buffer,
\* which still holds those bytes.
C19_Witness ==
    /\ ~DoEncryption
    /\ ~sess.IsPing
    /\ last.op = "GetOutgoing"
    /\ last.from = StateEstablished
    /\ last.pkt.PacketType = "MSG"
    /\ last.pkt.Seq = sess.MySeq
    /\ Len(last.pkt.Data) = 2
    /\ last.pkt.Data = sess.OutgoingBuffer
    /\ sess.MissedTransmissions = 2

\* The session is shut down in Established with nothing left to send: its
\* buffer and its driver are empty and the application's output has ended.
ShutDownAndDrained ==
    /\ sess.isShutdown
    /\ sess.State = StateEstablished
    /\ sess.OutgoingBuffer = <<>>
    /\ sess.Driver.outgoingData = <<>>
    /\ sess.Driver.readerDone

\* C20: once an Established session is shut down and has nothing left to
\* send, a poll through the Controller eventually emits its FIN.
C20_FinAfterShutdown ==
    [](ShutDownAndDrained
         => <>(last.op = "doSend" /\ last.ret /\ last.pkt.PacketType = "FIN"))

\* C21: Session.DataIncoming returns true whenever the frame made
\* acknowledgment or payload progress: for every accepted MSG that retired at
\* least one byte of the outgoing buffer or delivered a non-empty payload to
\* the driver, the value returned to the transport is true.
C21_ProgressReturnsTrue == [][ProgressMSG => last'.ret]_vars

\* The session at position i of the Controller's list is not shut down.
Live(i) == ~ctl.sessions[i].isShutdown

\* The position k steps after the cursor, wrapping from the last session to
\* the first.
AfterCursor(k) == ((ctl.currentIndex + k) % Len(ctl.sessions)) + 1

\* The step is a call of Controller.GetOutgoing that delegated to a session.
Delegated == hist'.op = "doSend" /\ hist'.found # 0

\* C22: Controller.GetOutgoing serves the sessions round-robin: a shut-down
\* session is never delegated to; the session delegated to is the first one
\* after the cursor that is not shut down, the cursor wrapping from the last
\* session to the first, and the cursor stays on it; so with n registered
\* sessions a session that stays non-shutdown never sees n calls in a row go
\* to other sessions.
C22_RoundRobin ==
    /\ [](\A i \in 1..Len(ctl.sessions) :
            Live(i) => hist.waits[i] < Len(ctl.sessions))
    /\ [][Delegated =>
            /\ Live(hist'.found)
            /\ ctl'.currentIndex = hist'.found - 1
            /\ \E k \in 1..Len(ctl.sessions) :
                  /\ hist'.found = AfterCursor(k)
                  /\ \A j \in 1..(k - 1) : ~Live(AfterCursor(j))]_vars

\* The call after the one that served the last of three sessions wrapped to
\* the first, and a shut-down session between them had no turn.
C22_Witness ==
    /\ hist.op = "doSend"
    /\ Len(ctl.sessions) = 3
    /\ hist.found = 1
    /\ ~Live(2)
    /\ Live(3)
    /\ hist.waits = <<0, 0, 1>>

\* C23: Controller.GetOutgoing reports 'no active sessions' (second result
\* false) exactly when no registered session is non-shutdown at the call; it
\* reports true whenever one is, also when the session it delegates to has
\* nothing to send; and the transport ends the process on the false result
\* and on no other.
C23_ActiveExactly ==
    [][hist'.op = "doSend" =>
          /\ hist'.ret.active = (\E i \in 1..Len(ctl.sessions) : Live(i))
          /\ exited' = ~hist'.ret.active]_vars

\* A call that found a session while another was shut down, got nothing to
\* send from it, and left the process running.
C23_Witness ==
    /\ hist.op = "doSend"
    /\ hist.ret.active
    /\ ~hist.ret.sent
    /\ ~exited
    /\ \E i \in 1..Len(ctl.sessions) : ~Live(i) /\ i # hist.found

\* The step is a call of Controller.DataIncoming.
Routed == hist'.op = "DataIncoming"

\* The positions of the sessions the step changed.
Changed == {i \in 1..Len(ctl.sessions) : ctl'.sessions[i] # ctl.sessions[i]}

\* The ids of the registered sessions.
RegisteredIDs == {ctl.sessions[i].ID : i \in 1..Len(ctl.sessions)}

\* C24: Controller.DataIncoming hands a frame only to a session whose ID
\* equals the session id in bytes 3-4 of the raw frame and changes no other
\* session; a frame whose id matches no registered session, or a frame of
\* fewer than 5 bytes, changes no session, returns false and does not end
\* the process.
C24_RoutedById ==
    [][Routed =>
          /\ Len(ctl'.sessions) = Len(ctl.sessions)
          /\ Changed \subseteq {hist'.found}
          /\ hist'.found # 0 =>
                /\ ctl.sessions[hist'.found].ID = hist'.id
                /\ ~hist'.ret.short
          /\ (hist'.ret.short \/ hist'.id \notin RegisteredIDs) =>
                /\ hist'.found = 0
                /\ Changed = {}
                /\ ~hist'.ret.ret
                /\ ~exited']_vars

\* A frame for the second of two sessions with different ids changed that
\* session and returned true.
C24_Witness ==
    /\ hist.op = "DataIncoming"
    /\ hist.found = 2
    /\ hist.id = ctl.sessions[2].ID
    /\ ctl.sessions[1].ID # hist.id
    /\ ctl.sessions[2].State = StateEstablished
    /\ ctl.sessions[1].State = StateNew
    /\ hist.ret.ret

\* The sessions Heartbeat has to kill: not shut down, and more missed
\* transmissions than the ceiling, when the ceiling is not negative.
Ignored ==
    {i \in 1..Len(ctl.sessions) :
        /\ ctl.MaxRetransmits >= 0
        /\ Live(i)
        /\ ctl.sessions[i].MissedTransmissions > ctl.MaxRetransmits}

\* C25: Heartbeat kills exactly the non-shutdown sessions whose
\* MissedTransmissions is greater than MaxRetransmits and leaves every other
\* session untouched; with a negative MaxRetransmits it kills no session.
C25_HeartbeatKills ==
    [][hist'.op = "Heartbeat" =>
          /\ Len(ctl'.sessions) = Len(ctl.sessions)
          /\ \A i \in 1..Len(ctl.sessions) :
                IF i \in Ignored
                THEN /\ ctl'.sessions[i].isShutdown
                     /\ ctl'.sessions[i].Driver.closed > 0
                ELSE ctl'.sessions[i] = ctl.sessions[i]
          /\ ctl.MaxRetransmits < 0 => ctl' = ctl
          /\ ctl'.currentIndex = ctl.currentIndex
          /\ ~exited']_vars

\* Heartbeat has just run over a session it killed, a session at the ceiling
\* it left alone, and a session that was shut down before.
C25_Witness ==
    /\ hist.op = "Heartbeat"
    /\ Len(ctl.sessions) = 3
    /\ \E i, j \in 1..3 :
          /\ ~Live(i)
          /\ ctl.sessions[i].MissedTransmissions > ctl.MaxRetransmits
          /\ ctl.sessions[i].Driver.readerDone = FALSE
          /\ Live(j)
          /\ ctl.sessions[j].MissedTransmissions = ctl.MaxRetransmits

\* Goroutine t is inside a blocking I/O call.
InIO(t) == conc.io[t] # ""

\* The locks goroutine t holds.
HeldBy(t) == {l \in Locks : conc.held[l] = t}

\* Goroutine t is at a Lock() of a mutex somebody holds.
WaitsFor(t, l) ==
    /\ Running(t)
    /\ Current(t) = Lock(l)
    /\ conc.held[l] # "none"

\* C26: no exclusion lock (a session's lock, the Controller's registry lock,
\* a command driver's lock) is held while a blocking I/O call is in progress
\* (file read or write, TCP dial, socket or pipe write), so that no
\* goroutine waits for a lock whose holder is inside such a call.
C26_NoLockAcrossIO ==
    /\ \A t \in Goroutines : InIO(t) => HeldBy(t) = {}
    /\ \A t \in Goroutines, l \in Locks :
          WaitsFor(t, l) => ~InIO(conc.held[l])

\* The transport is handling a shutdown request of the command session.
InShutdown == conc.request = "shutdown"

\* Goroutine t is at a Lock() of a mutex it holds itself: the Lock never
\* returns, since only t could release the mutex.
LeftBlocked(t) == \E l \in Locks : WaitsFor(t, l) /\ conc.held[l] = t

\* C27: when the command session receives a shutdown request the shutdown
\* callback runs to completion: the transport is never left blocked on a
\* lock while it handles the request, and when the shutdown response is
\* queued KillAllSessions has returned and every registered session, the
\* command session included, is marked shut down.
C27_ShutdownCompletes ==
    /\ InShutdown => ~LeftBlocked("transport")
    /\ (\E i \in 1..Len(conc.queued) : conc.queued[i] = "shutdown") =>
          /\ conc.held[ControllerMu] = "none"
          /\ \A i \in 1..Len(conc.sessions) :
                conc.sessions[i] \in conc.shutdown

\* C28: for the console, exec and command drivers GetOutgoing returns every
\* produced byte at most once and in production order, and once it has
\* returned done (nil) every later call returns done as well: no data is
\* produced after done was reported.
C28_DoneIsFinal ==
    /\ [](hist.returned \o drv.outgoingData
             = SubSeq(AppStream("client"), 1, drv.produced))
    /\ [][hist.done =>
             /\ hist'.result \in {"none", "nil"}
             /\ drv'.produced = drv.produced]_vars

\* The bytes of the stream that have arrived at the driver.
Fed == Len(StreamBytes(hist.kinds, 1)) - Len(hist.pending)

\* The k-th frame of the stream has arrived completely.
Arrived(k) == Len(StreamBytes(SubSeq(hist.kinds, 1, k), 1)) <= Fed

\* The responses the driver has queued so far.
Responses == cmd.sent \o cmd.outgoingData

\* C29: a command frame with an unknown command kind is not silently
\* dropped: once the frame has arrived the driver has queued an error
\* response that carries the request's id and status 0xFFFF ('not
\* implemented'), and it goes on to process the frame that follows, so that a
\* ping request that has arrived behind it has been decoded.
C29_UnknownAnswered ==
    \A k \in 1..Len(hist.kinds) :
        (hist.kinds[k] = "unknown" /\ Arrived(k)) =>
            /\ \E i \in 1..Len(Responses) :
                  Responses[i] = CommandPacket(k, CommandError, FALSE, 65535)
            /\ (k < Len(hist.kinds) /\ hist.kinds[k + 1] = "ping"
                   /\ Arrived(k + 1)) =>
                  \E i \in 1..Len(cmd.decoded) : cmd.decoded[i].RequestID = k + 1

\* The buffer holds fewer bytes than one complete length-prefixed frame.
Incomplete(buf) ==
    \/ Len(buf) < 4
    \/ Uint16(buf[1], buf[2]) > 0
    \/ Len(buf) < Uint16(buf[3], buf[4]) + 4

\* The driver after the whole stream has been fed to it in one piece.
OnePiece == DataReceived(NewCommandDriver, StreamBytes(hist.kinds, 1))

\* C30: ReadPacket, given a buffer that holds fewer bytes than one complete
\* length-prefixed frame, returns 'no packet, no error' and consumes nothing;
\* so the packets decoded from a byte stream are the same in every
\* segmentation as when the stream is fed in one piece.
C30_SegmentationIndependent ==
    /\ Incomplete(cmd.stream) =>
          ReadPacket(cmd.stream)
             = [pkt |-> NoCommand, err |-> FALSE, rest |-> cmd.stream]
    /\ hist.pending = <<>> => cmd.decoded = OnePiece.decoded

\* C31: every frame the Create* functions make, of each of the six kinds
\* (SYN, MSG, FIN, ENC key-init, ENC auth, PING), is serialised by ToBytes
\* without error and parsed back by Parse, without error, into a frame equal
\* to it in packet id, type, session id and every field of its body; and
\* ToBytes returns an error, and no bytes, exactly for a frame whose type's
\* body is nil or whose type is none of the five.
C31_RoundTrip ==
    /\ codec.stage = "written" =>
          /\ codec.ok <=> codec.frame \in CodecFrames
          /\ ~codec.ok => codec.bytes = <<>>
    /\ codec.stage = "parsed" =>
          /\ codec.ok
          /\ codec.parsed = codec.frame

C31_Witness ==
    /\ codec.stage = "parsed"
    /\ codec.frame.PacketType = PacketTypeSYN
    /\ codec.frame.Name # <<>>
    /\ codec.frame.PacketID = 65534
    /\ codec.parsed = codec.frame

\* C32: for every command packet either end makes, of every kind, request
\* and response, ReadPacket(ToBytes(packet)) is a packet equal to it in
\* request id, direction, command kind and every body field, and leaves
\* nothing in the buffer.
C32_CommandRoundTrip ==
    codec.stage = "parsed" =>
        /\ ~codec.err
        /\ codec.parsed = codec.frame
        /\ codec.bytes = <<>>

\* The same for the packets whose request id fits the 15 bits the packed id
\* has for it.
RoundTripOf15BitIds ==
    codec.stage = "parsed" /\ codec.frame.RequestID < 32768 =>
        /\ ~codec.err
        /\ codec.parsed = codec.frame
        /\ codec.bytes = <<>>

\* The frame of the step is one whose handler resets the miss counter: a MSG
\* that meets every condition of acceptance, a SYN read in New, or a FIN, if
\* its bytes verified and parsed.
Resetting ==
    /\ Verified
    /\ last'.pkt # Malformed
    /\ \/ last'.pkt.PacketType = "MSG" /\ Acceptable
       \/ last'.pkt.PacketType = "SYN" /\ Polled.State = StateNew
       \/ last'.pkt.PacketType = "FIN"

\* C33: MissedTransmissions goes up by exactly one in a GetOutgoing call that
\* returns a frame and stays as it is in one that returns none; a DataIncoming
\* call sets it to zero when its frame is an accepted MSG, a SYN accepted in
\* New or a FIN, and leaves it as it is for every other frame: one discarded
\* (bad signature, malformed), rejected (bad SEQ, bad ACK, wrong state), or
\* of a type that does not acknowledge (ENC, PING).
C33_MissCounter ==
    [][/\ last'.op = "GetOutgoing" /\ ~exited' =>
             sess'.MissedTransmissions =
                 sess.MissedTransmissions
                   + (IF last'.pkt = NoPacket THEN 0 ELSE 1)
       /\ last'.op = "DataIncoming" /\ ~exited' =>
             sess'.MissedTransmissions =
                 IF Resetting THEN 0 ELSE sess.MissedTransmissions]_vars

\* A MSG acknowledging a byte was accepted after two transmissions, and the
\* counter is back at zero.
C33_Witness ==
    /\ Received("MSG")
    /\ last.from = StateEstablished
    /\ last.acked > 0
    /\ sess.MissedTransmissions = 0
    /\ ~exited

\* The engine the session encrypts with is the one it had before the step.
SameEngine ==
    ctl'.sessions[1].Encryptor.myKey = ctl.sessions[1].Encryptor.myKey

\* The step sent a frame that the session's engine encrypted.
Encrypted == hist'.frame # NoFrame /\ hist'.frame.key # ClearKey

\* C34: an engine's send nonce goes up by exactly one with each frame it
\* encrypts and never goes down while the engine is in use, in whatever
\* state the frames are retransmitted and whatever the retransmit ceiling;
\* so no two frames of one engine carry the same nonce.
C34_NonceNeverWraps ==
    [][SameEngine =>
         LET before == ctl.sessions[1].Encryptor.nonce
             after  == ctl'.sessions[1].Encryptor.nonce
         IN  /\ after >= before
             /\ Encrypted => after = before + 1 /\ hist'.frame.nonce = before
             /\ ~Encrypted => after = before]_vars

\* The same under a ceiling that is not negative.
NonceNeverWrapsUnderCeiling ==
    [][SameEngine /\ ctl.MaxRetransmits >= 0 =>
         LET before == ctl.sessions[1].Encryptor.nonce
             after  == ctl'.sessions[1].Encryptor.nonce
         IN  /\ after >= before
             /\ Encrypted => after = before + 1 /\ hist'.frame.nonce = before
             /\ ~Encrypted => after = before]_vars

\* C35: handleMSG retires from the outgoing buffer only bytes that went out
\* in some MSG frame: whatever the length of the buffer, and whichever of
\* the peer's frames arrive, late, twice or out of order, the bytes retired
\* so far never outnumber the bytes of the stream transmitted so far.
C35_RetiresOnlySent == hist.retired <= hist.sent

\* The session of the run has been killed, or the process has ended because
\* no session was left.
Evicted == exited \/ ctl.sessions[1].isShutdown

\* The session is Established over an encrypted channel.
EstablishedEncrypted ==
    /\ DoEncryption
    /\ ctl.sessions[1].State = StateEstablished

\* C36: under a retransmit ceiling that is not negative, a session whose
\* peer has stopped answering does not stall: in whatever state it is,
\* Established with a renegotiation pending included, the Heartbeat of the
\* transport's timeouts eventually kills it.
C36_SilentSessionIsKilled == (ctl.MaxRetransmits >= 0) => <>Evicted

\* The same for the sessions that never come to a renegotiation.
SilentSessionIsKilledUnlessRenegotiating ==
    (ctl.MaxRetransmits >= 0 /\ ~EstablishedEncrypted) => <>Evicted

\* The transport is handling a TUNNEL_DATA or TUNNEL_CLOSE request for a
\* tunnel that tunnelConnect has opened.
InTunnelRequest ==
    /\ conc.tunnel
    /\ conc.request \in {"tunnelData", "tunnelClose"}

\* C37: the command driver's DataReceived returns for a TUNNEL_DATA or
\* TUNNEL_CLOSE request that names a known tunnel: the goroutine that
\* handles the request is never left waiting for a lock it holds itself.
C37_TunnelRequestReturns ==
    InTunnelRequest => \A t \in Goroutines : ~LeftBlocked(t)

\* The requests that are neither tunnel data, tunnel close nor shutdown
\* never leave their goroutine waiting for a lock it holds.
OtherRequestsReturn ==
    conc.request \notin {"tunnelData", "tunnelClose", "shutdown"}
       => \A t \in Goroutines : ~LeftBlocked(t)

\* Output of the child that readOutput has not appended to outgoingData:
\* bytes still in the pipe, or read and not yet appended.
Undelivered == Len(conc.pipe) + Len(conc.buf)

\* C38: when the exec driver's GetOutgoing has reported done, every byte
\* the child wrote before it exited has been appended to the driver's
\* outgoing data, however the reader, the waiting goroutine and the polls
\* interleave; so the session is not killed with output undelivered.
C38_OutputBeforeDone ==
    (hist.done \/ sess.isShutdown) => Undelivered = 0

\* Before the waiting goroutine has set isShutdown no poll reports done.
NotDoneBeforeWaitReturns == conc.waiter # "returned" => ~hist.done

\* The last call was a GetOutgoing that returned a frame.
ReturnedFrame == last.op = "GetOutgoing" /\ last.ret

\* C39: every frame GetOutgoing returns, of whatever type and with the
\* nonce and the signature counted, is at most as long as the maxLength the
\* transport gave, for every domain length; and no call computes a negative
\* payload length.
C39_FrameFits ==
    /\ ReturnedFrame => hist.length <= hist.maxLength
    /\ ~hist.panicked

\* MSG and PING frames, whose payload is cut to the budget, fit.
DataFramesFit ==
    ReturnedFrame /\ last.pkt.PacketType \in {"MSG", "PING"}
       => hist.length <= hist.maxLength

\* Every frame fits when the transport allows the 81 bytes of an encrypted
\* key-init frame or more.
FramesFitShortDomains ==
    /\ ReturnedFrame /\ hist.maxLength >= 81 => hist.length <= hist.maxLength
    /\ hist.maxLength >= 81 => ~hist.panicked

ClosedOnceOnTheTransport ==
    ~conc.stopping =>
       \A n \in SessionNames :
          /\ conc.closes[n] <= 1
          /\ (n \in conc.shutdown /\ ~Running("transport")) => conc.closes[n] = 1
          /\ n \notin conc.shutdown => conc.closes[n] = 0

\* A session that is shut down stays shut down.
ShutdownIsFinal == [][conc.shutdown \subseteq conc'.shutdown]_vars

====
